---- MODULE Spec2Model ----
(***************************************************************************)
(* The advocate ingestion pipeline: AdvocateIngester (file scanner, JSON   *)
(* decoder, record cleaner, schema validation, quarantine writers, worker  *)
(* pool and batch flushing), with the cleaning rules of CleaningUtils and  *)
(* the Advocate / AdvocacyProgram / AdvocacyTask schema.                   *)
(***************************************************************************)
EXTENDS Integers, Sequences, FiniteSets, TLC

(***************************************************************************)
(* Bounds of the model.                                                    *)
(***************************************************************************)
\* largest number of entries of an enumerated ingest directory
MaxFiles == 2
\* largest max_workers the ingester is constructed with
MaxWorkers == 2
\* how many times run() is called on one ingester
MaxRuns == 2

\* advocate_ingester.py:22
BATCH_SIZE == 500

(***************************************************************************)
(* Python values decoded from JSON.  A string is a sequence of symbols.    *)
(***************************************************************************)
JNull == [t |-> "null"]
JBool(b) == [t |-> "bool", b |-> b]
JNum(n) == [t |-> "num", n |-> n]
JNonFinite(x) == [t |-> "nonfinite", x |-> x]
JStr(s) == [t |-> "str", s |-> s]
JList(l) == [t |-> "list", l |-> l]
JObj(f) == [t |-> "obj", f |-> f]
JDatetime(iso) == [t |-> "datetime", iso |-> iso]

\* Python truth value of a value ("if not value")
Truthy(v) ==
    CASE v.t = "null" -> FALSE
      [] v.t = "bool" -> v.b
      [] v.t = "num" -> v.n # 0
      [] v.t = "str" -> Len(v.s) > 0
      [] v.t = "list" -> Len(v.l) > 0
      [] v.t = "obj" -> DOMAIN v.f # {}
      [] OTHER -> TRUE

\* dict.get(key): None when the key is absent
get(o, k) == IF k \in DOMAIN o.f THEN o.f[k] ELSE JNull

\* dict.get(key, []): the empty list when the key is absent
get_or_empty(o, k) == IF k \in DOMAIN o.f THEN o.f[k] ELSE JList(<<>>)

\* the order in which a parsed object yields its keys
KeyOrder ==
    <<"user_id", "name", "email", "instagram_handle", "joined_at",
      "advocacy_programs", "program_id", "brand", "total_sales_attributed",
      "tasks_completed", "task_id", "platform", "post_url", "likes", "reach",
      "nickname", "notes", "views">>

\* "for p in value": a list yields its elements, a string its characters, a
\* dict its keys; None, a number or a boolean is not iterable (TypeError)
Iterable(v) == v.t \in {"list", "str", "obj"}

Items(v) ==
    CASE v.t = "list" -> v.l
      [] v.t = "str" -> [i \in 1..Len(v.s) |-> JStr(<<v.s[i]>>)]
      [] v.t = "obj" -> LET ks == SelectSeq(KeyOrder, LAMBDA k : k \in DOMAIN v.f)
                        IN [i \in 1..Len(ks) |-> JStr(<<ks[i]>>)]
      [] OTHER -> <<>>

(***************************************************************************)
(* str methods used by the cleaning rules.                                 *)
(***************************************************************************)
Whitespace == {" "}

LowerMap == [A |-> "a", B |-> "b", Z |-> "z"]

Lower(c) == IF c \in DOMAIN LowerMap THEN LowerMap[c] ELSE c

lower(s) == [i \in 1..Len(s) |-> Lower(s[i])]

strip(s) ==
    LET n == Len(s)
        lead == Cardinality({i \in 1..n : \A j \in 1..i : s[j] \in Whitespace})
        trail == Cardinality({i \in 1..n : \A j \in i..n : s[j] \in Whitespace})
    IN IF lead = n THEN <<>> ELSE SubSeq(s, lead + 1, n - trail)

\* the characters the handle pattern [^a-z0-9_@] leaves in place
HandleChars == {"a", "b", "z", "0", "1", "9", "_", "@"}

Digits == {"0", "1", "9"}

DigitValue == [c \in Digits |-> CASE c = "0" -> 0 [] c = "1" -> 1 [] OTHER -> 9]

RECURSIVE DecimalValue(_)
DecimalValue(s) ==
    IF s = <<>> THEN 0
    ELSE 10 * DecimalValue(SubSeq(s, 1, Len(s) - 1)) + DigitValue[s[Len(s)]]

\* a string int() and float() parse: an optional sign and decimal digits
IsDecimal(s) ==
    LET d == IF s # <<>> /\ s[1] = "-" THEN Tail(s) ELSE s
    IN d # <<>> /\ \A i \in 1..Len(d) : d[i] \in Digits

SignedValue(s) ==
    IF s[1] = "-" THEN 0 - DecimalValue(Tail(s)) ELSE DecimalValue(s)

(***************************************************************************)
(* CleaningUtils                                                           *)
(***************************************************************************)
\* clean_email raises (TypeError on '"@" not in value', AttributeError on
\* value.strip()) for a truthy value that is not a string, unless the
\* membership test returns first
clean_email_raises(value) ==
    /\ Truthy(value)
    /\ \/ value.t \in {"num", "bool", "nonfinite", "datetime"}
       \/ value.t = "list" /\ \E i \in 1..Len(value.l) : value.l[i] = JStr(<<"@">>)
       \/ value.t = "obj" /\ "@" \in DOMAIN value.f

\* ^[^@]+@[^@]+\.[^@]+$
EmailShape(s) ==
    \E p \in 1..Len(s) :
        /\ s[p] = "@"
        /\ p > 1
        /\ \A i \in 1..Len(s) : s[i] = "@" => i = p
        /\ \E q \in (p + 2)..(Len(s) - 1) : s[q] = "."

clean_email(value) ==
    IF ~Truthy(value) \/ value.t # "str" THEN JNull
    ELSE IF \A i \in 1..Len(value.s) : value.s[i] # "@" THEN JNull
    ELSE LET s == lower(strip(value.s))
         IN IF EmailShape(s) THEN JStr(s) ELSE JNull

\* value.strip() on a truthy value that is not a string: AttributeError
clean_handle_raises(value) == Truthy(value) /\ value.t # "str"

clean_handle(value) ==
    IF ~Truthy(value) THEN JNull
    ELSE LET s == SelectSeq(lower(strip(value.s)), LAMBDA c : c \in HandleChars)
         IN IF s # <<>> /\ s[1] = "@" THEN JStr(s) ELSE JStr(<<"@">> \o s)

\* value.replace("Z", "+00:00")
ReplaceZ(s) == [i \in 1..Len(s) |-> IF s[i] = "Z" THEN "+00:00" ELSE s[i]]

\* the strings datetime.fromisoformat accepts
IsIsoFormat(s) ==
    s \in {<<"2024-01-01">>,
           <<"2024-01-01", "T", "10:00:00">>,
           <<"2024-01-01", "T", "10:00:00", "+00:00">>}

clean_date(value) ==
    IF ~Truthy(value) THEN JNull
    ELSE IF value.t = "str" /\ IsIsoFormat(ReplaceZ(value.s))
         THEN JDatetime(ReplaceZ(value.s))
         ELSE JNull

clean_int(value) ==
    CASE value.t = "null" -> 0
      [] value.t = "num" -> value.n
      [] value.t = "bool" -> IF value.b THEN 1 ELSE 0
      [] value.t = "str" ->
            IF IsDecimal(strip(value.s)) THEN SignedValue(strip(value.s)) ELSE 0
      [] OTHER -> 0

\* float("inf") and float("nan") parse, to values that are not finite
clean_float(value) ==
    CASE value.t = "null" -> JNum(0)
      [] value.t = "num" -> value
      [] value.t = "nonfinite" -> value
      [] value.t = "bool" -> JNum(IF value.b THEN 1 ELSE 0)
      [] value.t = "str" ->
            IF IsDecimal(strip(value.s)) THEN JNum(SignedValue(strip(value.s)))
            ELSE IF lower(strip(value.s)) \in {<<"inf">>, <<"nan">>}
                 THEN JNonFinite(lower(strip(value.s))[1])
                 ELSE JNum(0)
      [] OTHER -> JNum(0)

\* urlparse(value): a scheme is what precedes "://", the netloc what follows
\* it up to the next "/"
UrlScheme(s) == IF Len(s) >= 2 /\ s[2] = "://" THEN s[1] ELSE ""

UrlNetloc(s) ==
    IF Len(s) >= 3 /\ s[2] = "://" /\ s[3] # "/" THEN s[3] ELSE ""

clean_url(value) ==
    IF ~Truthy(value) \/ value.t # "str" THEN JNull
    ELSE LET s == strip(value.s)
         IN IF UrlScheme(s) # "" /\ UrlNetloc(s) # "" THEN JStr(s) ELSE JNull

(***************************************************************************)
(* Record Cleaner: AdvocateIngester._clean_advocate / _clean_program /     *)
(* _clean_task.  X_raises says that X ends with an exception.              *)
(***************************************************************************)
\* task.get on a value that is not a dict: AttributeError
_clean_task_raises(tsk) == tsk.t # "obj"

_clean_task(tsk) ==
    JObj([task_id |-> get(tsk, "task_id"),
          platform |-> get(tsk, "platform"),
          post_url |-> clean_url(get(tsk, "post_url")),
          likes |-> JNum(clean_int(get(tsk, "likes"))),
          comments |-> JNum(clean_int(get(tsk, "comments"))),
          shares |-> JNum(clean_int(get(tsk, "shares"))),
          reach |-> JNum(clean_int(get(tsk, "reach")))])

_clean_program_raises(program) ==
    \/ program.t # "obj"
    \/ LET tasks == get_or_empty(program, "tasks_completed")
       IN \/ ~Iterable(tasks)
          \/ \E i \in 1..Len(Items(tasks)) : _clean_task_raises(Items(tasks)[i])

\* str(value): a string stays as it is, any other value becomes its repr
PyStr(v) == IF v.t = "str" THEN v ELSE JStr(<<"repr">>)

\* a cleaner that gives a program without an id a placeholder id
program_id_or_placeholder(program) ==
    IF Truthy(get(program, "program_id"))
    THEN get(program, "program_id") ELSE JStr(<<"p", "0">>)

\* program.get("program_id") or None
program_id_or_None(program) ==
    IF Truthy(get(program, "program_id")) THEN get(program, "program_id") ELSE JNull

_clean_program(program) ==
    LET tasks == Items(get_or_empty(program, "tasks_completed"))
    IN JObj([program_id |-> program_id_or_None(program),
             brand |-> IF get(program, "brand") # JNull
                       THEN PyStr(get(program, "brand")) ELSE JNull,
             total_sales_attributed |->
                 clean_float(get(program, "total_sales_attributed")),
             tasks_completed |->
                 JList([i \in 1..Len(tasks) |-> _clean_task(tasks[i])])])

_clean_advocate_raises(raw) ==
    \/ raw.t # "obj"
    \/ clean_email_raises(get(raw, "email"))
    \/ clean_handle_raises(get(raw, "instagram_handle"))
    \/ clean_handle_raises(get(raw, "tiktok_handle"))
    \/ LET programs == get_or_empty(raw, "advocacy_programs")
       IN \/ ~Iterable(programs)
          \/ \E i \in 1..Len(Items(programs)) :
                 _clean_program_raises(Items(programs)[i])

_clean_advocate(raw) ==
    LET programs == Items(get_or_empty(raw, "advocacy_programs"))
    IN JObj([user_id |-> get(raw, "user_id"),
             name |-> get(raw, "name"),
             email |-> clean_email(get(raw, "email")),
             instagram_handle |-> clean_handle(get(raw, "instagram_handle")),
             tiktok_handle |-> clean_handle(get(raw, "tiktok_handle")),
             joined_at |-> clean_date(get(raw, "joined_at")),
             advocacy_programs |->
                 JList([i \in 1..Len(programs) |-> _clean_program(programs[i])])])

(***************************************************************************)
(* Schema: Advocate, AdvocacyProgram, AdvocacyTask (pydantic models).      *)
(***************************************************************************)
\* a field declared str
IsStr(v) == v.t = "str"

\* a field declared int: an integer, or a string that parses as one
IsIntLike(v) ==
    \/ v.t \in {"num", "bool"}
    \/ v.t = "str" /\ IsDecimal(strip(v.s))

\* a field declared float
IsFloatLike(v) == IsIntLike(v) \/ v.t = "nonfinite"

\* post_url: HttpUrl
IsHttpUrl(v) ==
    /\ v.t = "str"
    /\ UrlScheme(v.s) \in {"http", "https"}
    /\ UrlNetloc(v.s) # ""

\* email: Optional[EmailStr]
IsEmailStr(v) ==
    /\ v.t = "str"
    /\ EmailShape(v.s)
    /\ \A i \in 1..Len(v.s) : v.s[i] \notin Whitespace

TaskFields == {"task_id", "platform", "post_url", "likes", "comments", "shares", "reach"}

ValidTask(tsk) ==
    /\ tsk.t = "obj"
    /\ DOMAIN tsk.f \subseteq TaskFields
    /\ IsStr(get(tsk, "task_id"))
    /\ IsStr(get(tsk, "platform"))
    /\ IsHttpUrl(get(tsk, "post_url"))
    /\ \A k \in {"likes", "comments", "shares", "reach"} :
           k \in DOMAIN tsk.f => IsIntLike(tsk.f[k])

ProgramFields == {"program_id", "brand", "tasks_completed", "total_sales_attributed"}

ValidProgram(program) ==
    /\ program.t = "obj"
    /\ DOMAIN program.f \subseteq ProgramFields
    /\ IsStr(get(program, "program_id"))
    /\ IsStr(get(program, "brand"))
    /\ IsFloatLike(get(program, "total_sales_attributed"))
    /\ LET tasks == get_or_empty(program, "tasks_completed")
       IN /\ tasks.t = "list"
          /\ \A i \in 1..Len(tasks.l) : ValidTask(tasks.l[i])

\* Advocate._clean_handle, the "before" validator of both handles
Advocate_clean_handle(value) ==
    IF ~Truthy(value) THEN JNull
    ELSE LET s == SelectSeq(lower(strip(value.s)), LAMBDA c : c \in HandleChars)
         IN IF s = <<>> THEN JNull
            ELSE IF s[1] = "@" THEN JStr(s) ELSE JStr(<<"@">> \o s)

\* Advocate.model_validate raises ValidationError
ValidAdvocate(data) ==
    /\ data.t = "obj"
    /\ IsStr(get(data, "name"))
    /\ IsStr(get(data, "user_id"))
    /\ get(data, "email") = JNull \/ IsEmailStr(get(data, "email"))
    /\ get(data, "joined_at").t \in {"null", "datetime"}
    /\ \A h \in {"instagram_handle", "tiktok_handle"} :
           get(data, h).t \in {"null", "str"}
    /\ LET programs == get_or_empty(data, "advocacy_programs")
       IN /\ programs.t = "list"
          /\ \A i \in 1..Len(programs.l) : ValidProgram(programs.l[i])

\* the Advocate that model_validate builds from valid data
_validate_advocate(data) ==
    JObj([k \in DOMAIN data.f |->
             IF k \in {"instagram_handle", "tiktok_handle"}
             THEN Advocate_clean_handle(data.f[k])
             ELSE data.f[k]])

\* what one candidate record of a file comes to in _process_file
RecordOutcome(record) ==
    IF _clean_advocate_raises(record) THEN "raises"
    ELSE LET cleaned == _clean_advocate(record)
         IN IF ~Truthy(cleaned) THEN "uncleanable"
            ELSE IF ValidAdvocate(cleaned) THEN "valid"
            ELSE "invalid"

(***************************************************************************)
(* Inputs: raw records, file contents and ingest directories.              *)
(***************************************************************************)
RawTask ==
    JObj([task_id |-> JStr(<<"t", "1">>),
          platform |-> JStr(<<"i", "g">>),
          post_url |-> JStr(<<"https", "://", "h.com", "/p">>),
          likes |-> JStr(<<"1", "9">>),
          reach |-> JNum(9)])

RawProgram(tasks) ==
    JObj([program_id |-> JStr(<<"p", "1">>),
          brand |-> JStr(<<"b">>),
          total_sales_attributed |-> JNum(1),
          tasks_completed |-> tasks])

RawAdvocate(programs) ==
    JObj([user_id |-> JStr(<<"u", "1">>),
          name |-> JStr(<<"A", "b">>),
          email |-> JStr(<<" ", "A", "@", "b", ".", "z">>),
          instagram_handle |-> JStr(<<"#", "B", "a", "!">>),
          joined_at |-> JStr(<<"2024-01-01", "T", "10:00:00", "Z">>),
          advocacy_programs |-> programs])

\* a well-formed advocate
RecValid == RawAdvocate(JList(<<RawProgram(JList(<<RawTask>>))>>))

\* an advocate without a name
RecNoName == JObj([user_id |-> JStr(<<"u", "1">>)])

\* an advocate with a task that has no task_id
RecTaskNoId ==
    RawAdvocate(JList(<<RawProgram(JList(<<JObj([platform |-> JStr(<<"i", "g">>)])>>))>>))

\* the object with the field set, and the object without the field
With(o, k, v) == JObj([j \in DOMAIN o.f \cup {k} |-> IF j = k THEN v ELSE o.f[j]])
Without(o, k) == JObj([j \in DOMAIN o.f \ {k} |-> o.f[j]])

\* an advocate with the one program, and one with the one task
AdvocateOf(program) == RawAdvocate(JList(<<program>>))
AdvocateOfTask(tsk) == AdvocateOf(RawProgram(JList(<<tsk>>)))

\* advocates with a task whose likes are negative, as a number and as a string
RecLikesNegative == AdvocateOfTask(With(RawTask, "likes", JNum(0 - 9)))
RecLikesMinus == AdvocateOfTask(With(RawTask, "likes", JStr(<<"-", "1">>)))

\* an advocate with a task whose likes do not parse
RecLikesWord == AdvocateOfTask(With(RawTask, "likes", JStr(<<"a">>)))

\* an advocate with a top-level field the schema does not know
RecExtraField == With(RecValid, "nickname", JStr(<<"a">>))

\* advocates with a program, and with a task, that has a field its schema
\* does not know
RecProgramExtra == AdvocateOf(With(RawProgram(JList(<<RawTask>>)), "notes", JStr(<<"a">>)))
RecTaskExtra == AdvocateOfTask(With(RawTask, "views", JNum(1)))

\* advocates with a program whose program_id is absent, null and empty
RecProgramIdAbsent == AdvocateOf(Without(RawProgram(JList(<<RawTask>>)), "program_id"))
RecProgramIdNull == AdvocateOf(With(RawProgram(JList(<<RawTask>>)), "program_id", JNull))
RecProgramIdEmpty == AdvocateOf(With(RawProgram(JList(<<RawTask>>)), "program_id", JStr(<<>>)))

\* advocates with a program whose total_sales_attributed is absent, a word,
\* "inf" and "nan"
RecSalesAbsent == AdvocateOf(Without(RawProgram(JList(<<RawTask>>)), "total_sales_attributed"))
RecSalesWord ==
    AdvocateOf(With(RawProgram(JList(<<RawTask>>)), "total_sales_attributed", JStr(<<"a">>)))
RecSalesInf ==
    AdvocateOf(With(RawProgram(JList(<<RawTask>>)), "total_sales_attributed", JStr(<<"inf">>)))
RecSalesNan ==
    AdvocateOf(With(RawProgram(JList(<<RawTask>>)), "total_sales_attributed", JStr(<<"nan">>)))

\* an advocate with two programs, of two tasks and of one, each with its id
RecOrdered ==
    RawAdvocate(JList(<<
        RawProgram(JList(<<RawTask, With(RawTask, "task_id", JStr(<<"t", "2">>))>>)),
        With(RawProgram(JList(<<With(RawTask, "task_id", JStr(<<"t", "3">>))>>)),
             "program_id", JStr(<<"p", "2">>))>>))

\* an advocate whose email is a number
RecEmailNum == JObj([user_id |-> JStr(<<"u">>), name |-> JStr(<<"a">>), email |-> JNum(9)])

\* an advocate whose handle has no character of [a-z0-9_@]
RecHandleBang ==
    JObj([user_id |-> JStr(<<"u">>), name |-> JStr(<<"a">>),
          instagram_handle |-> JStr(<<"!", "!", "!", "!">>)])

\* an advocate whose handle is a list
RecHandleList ==
    JObj([user_id |-> JStr(<<"u">>), name |-> JStr(<<"a">>),
          tiktok_handle |-> JList(<<JStr(<<"a">>)>>)])

\* an advocate with an advocacy_programs entry that is not an object
RecProgramScalar == RawAdvocate(JList(<<JNum(1)>>))

\* an advocate with a tasks_completed entry that is not an object
RecTaskScalar == RawAdvocate(JList(<<RawProgram(JList(<<JStr(<<"t">>)>>))>>))

\* a file of the directory: how its name matches ("json": *.json, "junk":
\* ._*.json, "other": not *.json), how its bytes decode ("nontext": not
\* UTF-8, "unparsable": neither parser, "strict": json, "permissive": json5
\* only), the decoded value, and how many times the elements of a decoded
\* array repeat
File(name, text, payload) ==
    [name |-> name, text |-> text, payload |-> payload, times |-> 1]

\* a file holding the elements of the array rec repeated n times
Repeated(rec, n) ==
    [name |-> "json", text |-> "strict", payload |-> rec, times |-> n]

Contents ==
    [junk |-> File("junk", "nontext", JNull),
     other |-> File("other", "strict", RecValid),
     nontext |-> File("json", "nontext", JNull),
     unparsable |-> File("json", "unparsable", JNull),
     null |-> File("json", "strict", JNull),
     scalar |-> File("json", "strict", JNum(42)),
     valid |-> File("json", "strict", RecValid),
     relaxed |-> File("json", "permissive", RecValid),
     noname |-> File("json", "strict", RecNoName),
     mixed |-> File("json", "strict", JList(<<RecNoName, RecValid, RecTaskNoId>>)),
     nonobj |-> File("json", "strict", JList(<<RecValid, JNum(42), RecValid>>)),
     emailnum |-> File("json", "strict", RecEmailNum),
     handlelist |-> File("json", "strict", JList(<<RecHandleList>>)),
     handlebang |-> File("json", "strict", RecHandleBang),
     likes |-> File("json", "strict", JList(<<RecLikesNegative, RecLikesMinus, RecLikesWord>>)),
     extrafield |-> File("json", "strict", RecExtraField),
     extranested |-> File("json", "strict", JList(<<RecProgramExtra, RecTaskExtra>>)),
     programid |-> File("json", "strict",
                        JList(<<RecProgramIdAbsent, RecProgramIdNull, RecProgramIdEmpty>>)),
     sales |-> File("json", "strict",
                    JList(<<RecSalesAbsent, RecSalesWord, RecSalesInf, RecSalesNan>>)),
     ordered |-> File("json", "strict", JList(<<RecOrdered, RecNoName, RecOrdered>>)),
     progscalar |-> File("json", "strict", RecProgramScalar),
     taskscalar |-> File("json", "permissive", JList(<<RecNoName, RecTaskScalar>>)),
     full |-> Repeated(JList(<<RecValid>>), BATCH_SIZE),
     over |-> Repeated(JList(<<RecValid>>), BATCH_SIZE + 1),
     under |-> Repeated(JList(<<RecValid>>), BATCH_SIZE - 1),
     twice |-> Repeated(JList(<<RecValid>>), 2 * BATCH_SIZE)]

\* the contents every directory of up to MaxFiles entries is built from
SmallContents == {"junk", "unparsable", "valid"}

RECURSIVE SeqsUpTo(_, _)
SeqsUpTo(S, n) ==
    IF n = 0 THEN {<<>>}
    ELSE LET shorter == SeqsUpTo(S, n - 1)
         IN shorter \cup {Append(q, x) : q \in {r \in shorter : Len(r) = n - 1}, x \in S}

\* directories that exercise one more content each, alone, beside a valid
\* file, and two files of several records
OtherContents ==
    {"other", "nontext", "null", "scalar", "relaxed", "noname", "mixed", "nonobj",
     "emailnum", "handlelist", "handlebang", "progscalar", "taskscalar"}

\* contents that exercise the rules for single fields, each ingested alone
FieldContents == {"likes", "extrafield", "extranested", "programid", "sales", "ordered"}

OtherDirectories ==
    {<<c>> : c \in OtherContents} \cup {<<"valid", c>> : c \in OtherContents}
    \cup {<<"mixed", "mixed">>}

FieldDirectories == {<<c>> : c \in FieldContents}

\* directories with enough valid records to fill the batch buffer
BulkDirectories ==
    {<<"full">>, <<"over", "valid">>, <<"under", "mixed">>, <<"valid", "under", "valid">>,
     <<"twice">>, <<"full", "scalar">>}

\* directories that are also ingested where the quarantine directories
\* cannot be created or written
UnwritableDirectories ==
    OtherDirectories
    \cup {<<"unparsable">>, <<"unparsable", "valid">>, <<"valid", "unparsable">>}

\* parent_writable: mkdir and write_text succeed below the parent of the
\* ingest directory, where the two quarantine directories are; where it is
\* FALSE they raise OSError
Directories ==
    {[is_dir |-> TRUE, entries |-> e, parent_writable |-> TRUE] :
        e \in SeqsUpTo(SmallContents, MaxFiles) \cup OtherDirectories \cup BulkDirectories
              \cup FieldDirectories}
    \cup {[is_dir |-> TRUE, entries |-> e, parent_writable |-> FALSE] :
              e \in UnwritableDirectories}
    \cup {[is_dir |-> FALSE, entries |-> <<>>, parent_writable |-> TRUE]}

\* the pool sizes a directory is ingested with.  A pool never starts more
\* threads than it has work items, so sizes above the number of entries
\* repeat the runs of a smaller pool; a directory with a bulk file is
\* ingested by one worker: with more, every stale read of a counter
\* multiplies the states by the size of the file
WorkersFor(d) ==
    IF d.entries \in BulkDirectories \/ Len(d.entries) <= 1 THEN {1}
    ELSE {n \in 1..MaxWorkers : n <= Len(d.entries)}

(***************************************************************************)
(* Lists of validated advocates.  An advocate is named by the file and the *)
(* position in the file of the record it was validated from; a list is     *)
(* written as its runs of consecutive records of one file: the list        *)
(*   (p,3), (p,4), (p,5), (q,1)   is   <<[p, 3..5], [q, 1..1]>>.           *)
(***************************************************************************)
\* a list that takes a new advocate at its head
ListPrepend(l, p, i) ==
    IF l # <<>> /\ l[1].p = p /\ l[1].lo = i + 1
    THEN [l EXCEPT ![1].lo = i]
    ELSE <<[p |-> p, lo |-> i, hi |-> i]>> \o l

\* list.append(advocate)
ListAppend(l, p, i) ==
    IF l # <<>> /\ l[Len(l)].p = p /\ l[Len(l)].hi = i - 1
    THEN [l EXCEPT ![Len(l)].hi = i]
    ELSE Append(l, [p |-> p, lo |-> i, hi |-> i])

RECURSIVE ListLen(_)
\* len(list)
ListLen(l) ==
    IF l = <<>> THEN 0 ELSE (l[1].hi - l[1].lo + 1) + ListLen(Tail(l))

RECURSIVE ListAt(_, _)
\* list[k - 1]: the k-th advocate, as <<file, record>>
ListAt(l, k) ==
    IF k <= l[1].hi - l[1].lo + 1
    THEN <<l[1].p, l[1].lo + k - 1>>
    ELSE ListAt(Tail(l), k - (l[1].hi - l[1].lo + 1))

\* how many times the advocate <<p, i>> is in the list
ListCount(l, p, i) ==
    Cardinality({k \in 1..Len(l) : l[k].p = p /\ l[k].lo <= i /\ i <= l[k].hi})

(***************************************************************************)
(* The datastore behind the API: MongoDatastore over the "advocates"       *)
(* collection, reached through DatastoreManager.                           *)
(***************************************************************************)
\* advocate.model_dump(mode="json"): joined_at becomes its ISO string; a
\* float stays the float it is, also one that is not finite
model_dump(model) ==
    JObj([k \in DOMAIN model.f |->
             IF model.f[k].t = "datetime" THEN JStr(model.f[k].iso) ELSE model.f[k]])

\* the document the ingester sends to the sink for a valid record
StoredAdvocate(record) == model_dump(_validate_advocate(_clean_advocate(record)))

\* valid records of five users: one program with one task, one program with
\* two tasks, no program, one program whose sales are "inf", and a program
\* of another brand that has no task beside one that has a task
ApiRecords ==
    {RecValid,
     With(AdvocateOf(With(RawProgram(JList(<<RawTask, RawTask>>)),
                          "total_sales_attributed", JNum(5))),
          "user_id", JStr(<<"u", "2">>)),
     With(RawAdvocate(JList(<<>>)), "user_id", JStr(<<"u", "3">>)),
     With(RecSalesInf, "user_id", JStr(<<"u", "4">>)),
     With(RawAdvocate(JList(<<With(With(RawProgram(JList(<<>>)), "brand", JStr(<<"c">>)),
                                   "total_sales_attributed", JNum(3)),
                              With(RawProgram(JList(<<RawTask>>)),
                                   "total_sales_attributed", JNum(2))>>)),
          "user_id", JStr(<<"u", "5">>))}

\* the documents a collection is filled from
StoredDocuments == {StoredAdvocate(record) : record \in ApiRecords}

\* an exception raised by a call
Raised(e) == [t |-> "raise", e |-> e]

\* find_one({"user_id": user_id}, {"_id": 0}): a matching document, or None
MongoDatastore_get_advocate(collection, user_id) ==
    LET found == {d \in collection : get(d, "user_id") = user_id}
    IN IF found = {} THEN {JNull} ELSE found

\* "$sum" of two numbers
Add(a, b) ==
    IF JNonFinite("nan") \in {a, b} THEN JNonFinite("nan")
    ELSE IF JNonFinite("inf") \in {a, b} THEN JNonFinite("inf")
    ELSE JNum(a.n + b.n)

RECURSIVE Sum(_)
Sum(values) == IF values = <<>> THEN JNum(0) ELSE Add(values[1], Sum(Tail(values)))

RECURSIVE Flatten(_)
Flatten(lists) == IF lists = <<>> THEN <<>> ELSE lists[1] \o Flatten(Tail(lists))

\* what "$unwind" of advocacy_programs leaves of a document
UnwindPrograms(d) == get_or_empty(d, "advocacy_programs").l

\* what "$unwind" of advocacy_programs.tasks_completed leaves of it
UnwindTasks(d) ==
    Flatten([i \in DOMAIN UnwindPrograms(d) |->
                get_or_empty(UnwindPrograms(d)[i], "tasks_completed").l])

\* the addends of one user's group for a metric
Addends(d, metric) ==
    IF metric = JStr(<<"conversions">>)
    THEN [i \in DOMAIN UnwindPrograms(d) |->
             get(UnwindPrograms(d)[i], "total_sales_attributed")]
    ELSE [i \in DOMAIN UnwindTasks(d) |->
             Add(get(UnwindTasks(d)[i], "likes"),
                 Add(get(UnwindTasks(d)[i], "comments"),
                     get(UnwindTasks(d)[i], "shares")))]

\* "$group" by user_id: a document that unwinds to nothing has no group
Groups(collection, metric) ==
    {JObj([user_id |-> get(d, "user_id"), value |-> Sum(Addends(d, metric))]) :
        d \in {e \in collection : Addends(e, metric) # <<>>}}

\* the order of "$sort": NaN below every number, infinity above
NotBelow(a, b) ==
    \/ b = JNonFinite("nan")
    \/ a = JNonFinite("inf")
    \/ a.t = "num" /\ b.t = "num" /\ a.n >= b.n

\* "$sort" descending by the total: the order of equal totals is not fixed
SortDescending(groups) ==
    {s \in [1..Cardinality(groups) -> groups] :
        /\ \A i, j \in DOMAIN s : i # j => s[i] # s[j]
        /\ \A i, j \in DOMAIN s : i < j => NotBelow(s[i].f.value, s[j].f.value)}

\* "$limit": the server rejects a limit that is not positive
Limit(s, limit) ==
    IF limit.n <= 0 THEN Raised("OperationFailure")
    ELSE JList(SubSeq(s, 1, IF limit.n < Len(s) THEN limit.n ELSE Len(s)))

\* MongoDatastore.calculate_top_advocates: every list the aggregation can
\* return, or the exception of collection.aggregate
MongoDatastore_calculate_top_advocates(collection, metric, limit) ==
    IF metric \in {JStr(<<"conversions">>), JStr(<<"engagement">>)}
    THEN {Limit(s, limit) : s \in SortDescending(Groups(collection, metric))}
    ELSE {JList(<<>>)}

\* DatastoreManager.get_advocate, calculate_top_advocates: the result of the
\* datastore, unchanged (a falsy one is logged)
DatastoreManager_get_advocate(collection, user_id) ==
    MongoDatastore_get_advocate(collection, user_id)

DatastoreManager_calculate_top_advocates(collection, metric, limit) ==
    MongoDatastore_calculate_top_advocates(collection, metric, limit)

(***************************************************************************)
(* The API server (server/api.py).  A handler is given as the set of ways  *)
(* a request can end: the response, and the calls made on the datastore.   *)
(***************************************************************************)
HTTP_200_OK == 200
HTTP_400_BAD_REQUEST == 400
HTTP_401_UNAUTHORIZED == 401
HTTP_500_INTERNAL_SERVER_ERROR == 500

\* raise HTTPException(status_code, detail)
HTTPException(status_code, detail) ==
    [status_code |-> status_code, body |-> JObj([detail |-> JStr(<<detail>>)])]

\* an exception that no handler catches
InternalServerError ==
    [status_code |-> HTTP_500_INTERNAL_SERVER_ERROR,
     body |-> JStr(<<"Internal Server Error">>)]

\* the value holds a float that is not finite
RECURSIVE NonFiniteIn(_)
NonFiniteIn(value) ==
    CASE value.t = "nonfinite" -> TRUE
      [] value.t = "list" -> \E i \in DOMAIN value.l : NonFiniteIn(value.l[i])
      [] value.t = "obj" -> \E k \in DOMAIN value.f : NonFiniteIn(value.f[k])
      [] OTHER -> FALSE

\* a handler returned value: the framework renders it as the JSON body of a
\* 200, and the rendering raises ValueError for a float that is not finite
Returned(value) ==
    IF NonFiniteIn(value) THEN InternalServerError
    ELSE [status_code |-> HTTP_200_OK, body |-> value]

\* a call on the datastore and what it gave
Call(op, args, result) == [op |-> op, args |-> args, result |-> result]

\* the Basic credentials of a request: none, a wrong password, the right one
Credentials == {"none", "wrong", "admin"}

\* verify_password: "correct_login"
correct_login(credentials) == credentials = "admin"

\* verify_password raises, or HTTPBasic does when there are no credentials
Unauthorized(credentials) ==
    [response |-> HTTPException(HTTP_401_UNAUTHORIZED,
                                IF credentials = "none" THEN "Not authenticated"
                                ELSE "Incorrect username or password"),
     calls |-> <<>>]

\* get_user
get_user(collection, user_id) ==
    {[response |-> IF ~Truthy(user)
                   THEN HTTPException(HTTP_400_BAD_REQUEST, "User not found")
                   ELSE Returned(user),
      calls |-> <<Call("get_advocate", <<user_id>>, user)>>] :
        user \in DatastoreManager_get_advocate(collection, user_id)}

\* top_advocates
top_advocates(collection, limit, metric) ==
    IF metric \notin {JStr(<<"conversions">>), JStr(<<"engagement">>)}
    THEN {[response |-> HTTPException(HTTP_400_BAD_REQUEST, "Invalid metric"),
           calls |-> <<>>]}
    ELSE {[response |-> IF results.t = "raise" THEN InternalServerError
                        ELSE Returned(JObj([metric |-> metric, results |-> results])),
           calls |-> <<Call("calculate_top_advocates", <<metric, limit>>, results)>>] :
             results \in DatastoreManager_calculate_top_advocates(collection, metric, limit)}

\* the collection as a list of its documents, in some order
RECURSIVE Documents(_)
Documents(collection) ==
    IF collection = {} THEN <<>>
    ELSE LET d == CHOOSE e \in collection : TRUE
         IN <<d>> \o Documents(collection \ {d})

\* the two "$unwind" of calculate_brand_performance: one row for each task of
\* each program of each document; a program without tasks leaves no row
BrandRows(collection) ==
    Flatten([n \in DOMAIN Documents(collection) |->
        Flatten([i \in DOMAIN UnwindPrograms(Documents(collection)[n]) |->
            LET program == UnwindPrograms(Documents(collection)[n])[i]
                tasks == get_or_empty(program, "tasks_completed").l
            IN [j \in DOMAIN tasks |-> [program |-> program, tsk |-> tasks[j]]]])])

\* "$group" by brand and "$project": the roll-up of the rows of one brand
BrandEntry(rows, brand) ==
    LET of == SelectSeq(rows, LAMBDA r : get(r.program, "brand") = brand)
        total(k) == Sum([n \in DOMAIN of |-> get(of[n].tsk, k)])
    IN JObj([brand |-> brand,
             total_tasks |-> JNum(Len(of)),
             engagement |-> JObj([likes |-> total("likes"),
                                  comments |-> total("comments"),
                                  shares |-> total("shares")]),
             total_reach |-> total("reach"),
             total_sales |->
                 Sum([n \in DOMAIN of |-> get(of[n].program, "total_sales_attributed")])])

\* MongoDatastore.calculate_brand_performance: every list the aggregation
\* can return ("$sort" by total_sales, descending)
MongoDatastore_calculate_brand_performance(collection) ==
    LET rows == BrandRows(collection)
        entries == {BrandEntry(rows, get(rows[n].program, "brand")) : n \in DOMAIN rows}
    IN {JList(s) :
           s \in {o \in [1..Cardinality(entries) -> entries] :
                     /\ \A i, j \in DOMAIN o : i # j => o[i] # o[j]
                     /\ \A i, j \in DOMAIN o :
                           i < j => NotBelow(o[i].f.total_sales, o[j].f.total_sales)}}

\* brand_performance
brand_performance(collection) ==
    {[response |-> Returned(JObj([results |-> results])),
      calls |-> <<Call("calculate_brand_performance", <<>>, results)>>] :
        results \in MongoDatastore_calculate_brand_performance(collection)}

\* the value calculate_outliers gives a document: the sum of the sales of
\* its programs, or of the likes, comments and shares of its tasks
OutlierValue(d, metric) ==
    Sum(Addends(d, IF metric = JStr(<<"sales">>)
                   THEN JStr(<<"conversions">>) ELSE JStr(<<"engagement">>)))

\* d["value"] > mean + stddev * sigma over the values, mean and sigma being
\* those of numpy: with n values of sum S and sum of squares Q,
\* n * (v - mean) = n * v - S and (n * sigma)^2 = n * Q - S^2.  A value
\* that is not finite makes the limit nan, and no comparison with nan holds
AboveUpperLimit(v, values, stddev) ==
    IF \E k \in DOMAIN values : values[k].t = "nonfinite" THEN FALSE
    ELSE LET n == Len(values)
             S == Sum(values).n
             Q == Sum([k \in DOMAIN values |-> JNum(values[k].n * values[k].n)]).n
             D == n * v.n - S
             W == n * Q - S * S
         IN IF stddev.n >= 0
            THEN D > 0 /\ D * D > stddev.n * stddev.n * W
            ELSE D >= 0 \/ D * D < stddev.n * stddev.n * W

\* MongoDatastore.calculate_outliers
MongoDatastore_calculate_outliers(collection, metric, stddev) ==
    LET advocates == Documents(collection)
        dataset == [k \in DOMAIN advocates |->
                       JObj([user_id |-> get(advocates[k], "user_id"),
                             value |-> OutlierValue(advocates[k], metric)])]
        values == [k \in DOMAIN dataset |-> dataset[k].f.value]
    IN IF Len(values) = 0 THEN JList(<<>>)
       ELSE JList(SelectSeq(dataset,
                            LAMBDA d : AboveUpperLimit(d.f.value, values, stddev)))

\* DatastoreManager.calculate_outliers
DatastoreManager_calculate_outliers(collection, metric, stddev) ==
    MongoDatastore_calculate_outliers(collection, metric, stddev)

\* outliers
outliers(collection, metric, stddev) ==
    IF metric \notin {JStr(<<"sales">>), JStr(<<"engagement">>)}
    THEN {[response |-> HTTPException(HTTP_400_BAD_REQUEST,
                                      "Metric must be 'sales' or 'engagement'"),
           calls |-> <<>>]}
    ELSE LET results == DatastoreManager_calculate_outliers(collection, metric, stddev)
         IN {[response |-> Returned(JObj([metric |-> metric,
                                          stddev |-> stddev,
                                          outliers |-> results])),
              calls |-> <<Call("calculate_outliers", <<metric, stddev>>, results)>>]}

\* health: the module's DatastoreManager is an object, which is true
health ==
    {[response |-> Returned(JObj([status |-> JStr(<<"ok">>)])), calls |-> <<>>]}

\* swagger: the HTML page of get_swagger_ui_html
swagger ==
    {[response |-> [status_code |-> HTTP_200_OK, body |-> JStr(<<"swagger-ui">>)],
      calls |-> <<>>]}

\* the "stddev" of a request: absent (2 by default) or an integer
Stddevs == {JNull, JNum(0 - 1), JNum(0), JNum(1)}
DefaultStddev == JNum(2)

\* the user ids asked for: the stored ones and one that is not stored
UserIds == {JStr(<<"u", n>>) : n \in {"1", "2", "3", "4", "5", "9"}}

\* the "metric" of a request: absent ("conversions" by default) or given
Metrics == {JNull, JStr(<<"conversions">>), JStr(<<"engagement">>), JStr(<<"sales">>)}
DefaultMetric == JStr(<<"conversions">>)

\* the "limit" of a request: absent (20 by default) or an integer
Limits == {JNull, JNum(0 - 1), JNum(0), JNum(1), JNum(2)}
DefaultLimit == JNum(20)

\* a query parameter, or its default when the request has none
OrDefault(value, default) == IF value = JNull THEN default ELSE value

\* a server that has served no request, over a collection
NoRequests(collection) ==
    [store |-> collection,
     request |-> [endpoint |-> "none"],
     response |-> [status_code |-> 0, body |-> JNull],
     calls |-> <<>>]

(***************************************************************************)
(* State of one AdvocateIngester and of the run() in progress.             *)
(***************************************************************************)
VARIABLES
    dir,                    \* the ingest directory (unchanged by the runs)
    write_to_datastore,     \* constructor argument
    max_workers,            \* constructor argument
    pc,                     \* where the thread executing run() is
    run_no,                 \* number of calls of run() so far
    returned,               \* what each finished call of run() gave its caller
    scan_pos,               \* entries the glob of _iter_candidate_files has passed
    advocate_files,         \* the worklist (positions in the directory)
    stats,                  \* self.stats
    task,                   \* the futures: state of each submitted _process_file
    consumed,               \* futures as_completed has yielded
    cur,                    \* the future whose result is being aggregated
    cur_pos,                \* position in that result
    batch,                  \* the batch buffer
    add_advocates_calls,    \* the batches datastore.add_advocates got in this run
    insert_many_outcomes,   \* what insert_many did in each of these calls
    advocates,              \* self.advocates
    invalid_json_dir,       \* artifacts in <ingest-dir>_invalid_json
    failed_validation_dir,  \* artifacts in <ingest-dir>_failed_validation
    exc,                    \* the exception propagating out of run()
    api                     \* the API server: its datastore and the last request

vars ==
    <<dir, write_to_datastore, max_workers, pc, run_no, returned, scan_pos,
      advocate_files, stats, task, consumed, cur, cur_pos, batch,
      add_advocates_calls, insert_many_outcomes, advocates, invalid_json_dir,
      failed_validation_dir, exc, api>>

\* counters of which one does not start at zero
IngestStatsSeenOne ==
    [files_seen |-> 1, files_parsed |-> 0, files_skipped |-> 0,
     records_valid |-> 0, records_invalid |-> 0]

\* IngestStats()
IngestStats ==
    [files_seen |-> 0, files_parsed |-> 0, files_skipped |-> 0,
     records_valid |-> 0, records_invalid |-> 0]

\* the file at position p of the directory
FileAt(p) == Contents[dir.entries[p]]

\* record i of the file at position p: `records` of _process_file
RecordAt(p, i) ==
    LET payload == FileAt(p).payload
    IN IF payload.t = "list" THEN payload.l[((i - 1) % Len(payload.l)) + 1] ELSE payload

\* what each record of each file comes to when _process_file cleans and
\* validates it
Outcomes ==
    [c \in DOMAIN Contents |->
        LET payload == Contents[c].payload
        IN IF payload.t = "list"
           THEN [i \in DOMAIN payload.l |-> RecordOutcome(payload.l[i])]
           ELSE <<RecordOutcome(payload)>>]

\* what record i of the file at position p comes to
OutcomeAt(p, i) ==
    LET o == Outcomes[dir.entries[p]] IN o[((i - 1) % Len(o)) + 1]

\* _load_json: the decoded value, None for a file that is not text, that no
\* parser decodes, or that holds the literal null
_load_json(file) ==
    IF file.text \in {"nontext", "unparsable"} THEN JNull ELSE file.payload

\* a reading that takes every file for UTF-8 text
ReadsAsTextAlways(file) == TRUE

\* path.read_text(encoding="utf-8", errors="strict") returns
ReadsAsText(file) == file.text # "nontext"

\* json.load decodes the file; json5.load decodes what json.load decodes
\* and the relaxed syntax
StrictParses(file) == file.text = "strict"
PermissiveParses(file) == file.text \in {"strict", "permissive"}

\* calls in which the quarantine write follows the failure of json.load
LoadCallsQuarantineFirst(file) ==
    IF ~ReadsAsText(file) THEN <<"read_text">>
    ELSE IF StrictParses(file) THEN <<"read_text", "json.load">>
    ELSE <<"read_text", "json.load", "_write_invalid_json_record", "json5.load">>

\* the calls _load_json makes on the file, in order
LoadCalls(file) ==
    IF ~ReadsAsText(file) THEN <<"read_text">>
    ELSE IF StrictParses(file) THEN <<"read_text", "json.load">>
    ELSE IF PermissiveParses(file) THEN <<"read_text", "json.load", "json5.load">>
    ELSE <<"read_text", "json.load", "json5.load", "_write_invalid_json_record">>

\* where the call is among those _load_json makes on the file
CallPositions(file, call) ==
    {i \in DOMAIN LoadCalls(file) : LoadCalls(file)[i] = call}

\* _load_json calls _write_invalid_json_record
LoadQuarantines(file) == CallPositions(file, "_write_invalid_json_record") # {}

\* how many records _process_file iterates over: the elements of a list, or
\* the payload itself
NumRecords(file) ==
    IF file.payload.t = "list" THEN Len(file.payload.l) * file.times ELSE 1


\* a future: st is "unsubmitted", "pending" (queued), then the position of
\* the worker in _process_file, then "finished" or "failed"; idx is the
\* record at hand, reg the counter value read and not yet written back,
\* result the local list of validated advocates, incs how many times the
\* task has executed "+= 1" on each counter
NewTask ==
    [st |-> "unsubmitted", idx |-> 0, reg |-> 0, result |-> <<>>, incs |-> IngestStats,
     oserror |-> FALSE]

\* mkdir or write_text of a quarantine writer raised OSError and nothing
\* caught it: the exception ends the task
OSErrorPropagated(tk) == [tk EXCEPT !.st = "failed", !.oserror = TRUE]

\* mkdir or write_text of a quarantine writer raised OSError: "except OSError"
\* logs a warning and the writer returns; oserror records that it happened
OSErrorSwallowed(tk) == [tk EXCEPT !.oserror = TRUE]

\* the task after a quarantine writer returned, the write done (ok) or not
AfterQuarantine(tk, ok) == IF ok THEN tk ELSE OSErrorSwallowed(tk)

\* the task has completed one more "self.stats.<counter> += 1"
Incremented(tk, counter) == [tk EXCEPT !.incs[counter] = @ + 1]

Running(t) ==
    task[t].st \in {"w_skipped", "w_parsed", "record", "w_valid", "w_invalid"}

Completed(t) == task[t].st \in {"finished", "failed"}

TypeOK ==
    /\ pc \in {"idle", "scan", "submit", "collect", "aggregate", "flush_check",
               "unwind", "final_flush", "done", "raised"}
    /\ run_no \in 0..MaxRuns
    /\ exc \in {"none", "task", "AttributeError", "add_advocates"}
    /\ Len(task) <= Len(advocate_files)
    /\ ListLen(batch) <= BATCH_SIZE

Init ==
    /\ dir \in Directories
    /\ write_to_datastore \in BOOLEAN
    /\ max_workers \in WorkersFor(dir)
    /\ pc = "idle"
    /\ run_no = 0
    /\ returned = <<>>
    /\ scan_pos = 0
    /\ advocate_files = <<>>
    /\ stats = IngestStats
    /\ task = <<>>
    /\ consumed = {}
    /\ cur = 0
    /\ cur_pos = 0
    /\ batch = <<>>
    /\ add_advocates_calls = <<>>
    /\ insert_many_outcomes = <<>>
    /\ advocates = <<>>
    /\ invalid_json_dir = {}
    /\ failed_validation_dir = <<>>
    /\ exc = "none"
    /\ api = NoRequests({})

(***************************************************************************)
(* run(), the coordinator thread.                                          *)
(***************************************************************************)
\* run() is called: self.advocates.clear(); self.stats = IngestStats()
RunStart ==
    /\ pc \in {"idle", "done", "raised"}
    /\ run_no < MaxRuns
    /\ run_no' = run_no + 1
    /\ pc' = "scan"
    /\ advocates' = <<>>
    /\ stats' = IngestStats
    /\ scan_pos' = 0
    /\ advocate_files' = <<>>
    /\ task' = <<>>
    /\ consumed' = {}
    /\ cur' = 0
    /\ cur_pos' = 0
    /\ batch' = <<>>
    /\ add_advocates_calls' = <<>>
    /\ insert_many_outcomes' = <<>>
    /\ exc' = "none"
    /\ UNCHANGED <<api, dir, write_to_datastore, max_workers, returned,
                   invalid_json_dir, failed_validation_dir>>

\* the counters when only a yielded path counted as seen
CountEntryYieldedOnly(file, s) ==
    IF file.name = "junk"
    THEN [s EXCEPT !.files_skipped = @ + 1]
    ELSE [s EXCEPT !.files_seen = @ + 1]

\* the counters after the glob gave a *.json entry: files_seen += 1, and
\* files_skipped += 1 for a name that starts with "._"
CountEntry(file, s) ==
    IF file.name = "junk"
    THEN [s EXCEPT !.files_seen = @ + 1, !.files_skipped = @ + 1]
    ELSE [s EXCEPT !.files_seen = @ + 1]

\* _iter_candidate_files: one entry of the directory; glob("*.json") passes
\* over the other names, and a junk name is not yielded
ScanEntry ==
    /\ pc = "scan"
    /\ dir.is_dir
    /\ scan_pos < Len(dir.entries)
    /\ scan_pos' = scan_pos + 1
    /\ LET file == FileAt(scan_pos + 1)
       IN IF file.name = "other"
          THEN UNCHANGED <<stats, advocate_files>>
          ELSE /\ stats' = CountEntry(file, stats)
               /\ advocate_files' = IF file.name = "junk"
                                    THEN advocate_files
                                    ELSE Append(advocate_files, scan_pos + 1)
    /\ UNCHANGED <<api, insert_many_outcomes,
                   dir, write_to_datastore, max_workers, pc, run_no, returned, task,
                   consumed, cur, cur_pos, batch, add_advocates_calls, advocates,
                   invalid_json_dir, failed_validation_dir, exc>>

\* a worklist that is never taken for empty
NoCandidatesNever(files) == FALSE

\* "if not advocate_files"
NoCandidates(files) == files = <<>>

\* the generator is exhausted: an empty worklist returns the stats
ScanDone ==
    /\ pc = "scan"
    /\ ~dir.is_dir \/ scan_pos = Len(dir.entries)
    /\ IF NoCandidates(advocate_files)
       THEN /\ pc' = "done"
            /\ returned' = Append(returned, [ok |-> TRUE, stats |-> stats])
       ELSE /\ pc' = "submit"
            /\ UNCHANGED returned
    /\ UNCHANGED <<api, insert_many_outcomes,
                   dir, write_to_datastore, max_workers, run_no, scan_pos,
                   advocate_files, stats, task, consumed, cur, cur_pos, batch,
                   add_advocates_calls, advocates, invalid_json_dir,
                   failed_validation_dir, exc>>

\* executor.submit(self._process_file, path) for the next path
Submit ==
    /\ pc = "submit"
    /\ task' = Append(task, [NewTask EXCEPT !.st = "pending"])
    /\ pc' = IF Len(task) + 1 = Len(advocate_files) THEN "collect" ELSE "submit"
    /\ UNCHANGED <<api, insert_many_outcomes,
                   dir, write_to_datastore, max_workers, run_no, returned, scan_pos,
                   advocate_files, stats, consumed, cur, cur_pos, batch,
                   add_advocates_calls, advocates, invalid_json_dir,
                   failed_validation_dir, exc>>

\* a buffer that is flushed only once it holds more than BATCH_SIZE
BatchFullAbove(b) == ListLen(b) > BATCH_SIZE

\* len(batch) >= BATCH_SIZE
BatchFull(b) == ListLen(b) >= BATCH_SIZE

\* what collection.insert_many does with a batch: it inserts the documents,
\* or raises a PyMongoError, or raises another exception
InsertManyOutcomes == {"inserted", "PyMongoError", "Exception"}

\* an add_advocates whose except clauses let the exception go on
add_advocates_reraising(outcome) ==
    IF outcome = "inserted" THEN "returns" ELSE "raises"

\* MongoDatastore.add_advocates: insert_many in a try whose except clauses,
\* for PyMongoError and for Exception, log the error; it returns None
\* whatever insert_many did
MongoDatastore_add_advocates(outcome) ==
    IF outcome \in {"inserted", "PyMongoError", "Exception"} THEN "returns" ELSE "raises"

\* DatastoreManager.add_advocates
DatastoreManager_add_advocates(outcome) == MongoDatastore_add_advocates(outcome)

\* hasattr(self, "datastore"): __init__ sets it only when write_to_datastore
HasDatastore == write_to_datastore

\* a DatastoreManager defines neither __bool__ nor __len__: it is true
DatastoreTruthy == TRUE

\* as_completed yields a completed future; future.result() returns the task's
\* list or raises the task's exception
Collect ==
    /\ pc = "collect"
    /\ \E t \in DOMAIN task \ consumed :
          /\ Completed(t)
          /\ consumed' = consumed \cup {t}
          /\ IF task[t].st = "failed"
             THEN /\ exc' = "task"
                  /\ pc' = "unwind"
                  /\ UNCHANGED <<cur, cur_pos>>
             ELSE /\ cur' = t
                  /\ cur_pos' = 1
                  /\ pc' = IF task[t].result = <<>> THEN "collect" ELSE "aggregate"
                  /\ UNCHANGED exc
    /\ UNCHANGED <<api, insert_many_outcomes,
                   dir, write_to_datastore, max_workers, run_no, returned, scan_pos,
                   advocate_files, stats, task, batch, add_advocates_calls,
                   advocates, invalid_json_dir, failed_validation_dir>>

\* a loop over the futures that is left after the first result
FirstYielded == consumed # {}

\* as_completed(futures) is exhausted: it has yielded every future
AllYielded == consumed = DOMAIN task

\* every future has been yielded: the executor is left, the loop is over
CollectDone ==
    /\ pc = "collect"
    /\ AllYielded
    /\ pc' = "final_flush"
    /\ UNCHANGED <<api, insert_many_outcomes,
                   dir, write_to_datastore, max_workers, run_no, returned, scan_pos,
                   advocate_files, stats, task, consumed, cur, cur_pos, batch,
                   add_advocates_calls, advocates, invalid_json_dir,
                   failed_validation_dir, exc>>

\* one advocate of the result: "if self.datastore:" then batch.append, else
\* self.advocates.append
Aggregate ==
    /\ pc = "aggregate"
    /\ LET advocate == ListAt(task[cur].result, cur_pos)
       IN IF ~HasDatastore
          THEN /\ exc' = "AttributeError"
               /\ pc' = "unwind"
               /\ UNCHANGED <<batch, advocates, cur_pos>>
          ELSE IF DatastoreTruthy
               THEN /\ batch' = ListAppend(batch, advocate[1], advocate[2])
                    /\ pc' = "flush_check"
                    /\ UNCHANGED <<exc, advocates, cur_pos>>
               ELSE /\ advocates' = ListAppend(advocates, advocate[1], advocate[2])
                    /\ cur_pos' = cur_pos + 1
                    /\ pc' = IF cur_pos = ListLen(task[cur].result)
                             THEN "collect" ELSE "aggregate"
                    /\ UNCHANGED <<exc, batch>>
    /\ UNCHANGED <<api, insert_many_outcomes,
                   dir, write_to_datastore, max_workers, run_no, returned, scan_pos,
                   advocate_files, stats, task, consumed, cur, add_advocates_calls,
                   invalid_json_dir, failed_validation_dir>>

\* "if len(batch) >= BATCH_SIZE:" add_advocates(batch); batch.clear()
FlushCheck ==
    /\ pc = "flush_check"
    /\ \E outcome \in IF BatchFull(batch) THEN InsertManyOutcomes ELSE {"no call"} :
          IF outcome = "no call"
          THEN /\ cur_pos' = cur_pos + 1
               /\ pc' = IF cur_pos = ListLen(task[cur].result)
                        THEN "collect" ELSE "aggregate"
               /\ UNCHANGED <<add_advocates_calls, insert_many_outcomes, batch, exc>>
          ELSE /\ add_advocates_calls' = Append(add_advocates_calls, batch)
               /\ insert_many_outcomes' = Append(insert_many_outcomes, outcome)
               /\ IF DatastoreManager_add_advocates(outcome) = "returns"
                  THEN /\ batch' = <<>>
                       /\ cur_pos' = cur_pos + 1
                       /\ pc' = IF cur_pos = ListLen(task[cur].result)
                                THEN "collect" ELSE "aggregate"
                       /\ UNCHANGED exc
                  ELSE /\ exc' = "add_advocates"
                       /\ pc' = "unwind"
                       /\ UNCHANGED <<batch, cur_pos>>
    /\ UNCHANGED <<api, dir, write_to_datastore, max_workers, run_no, returned, scan_pos,
                   advocate_files, stats, task, consumed, cur, advocates,
                   invalid_json_dir, failed_validation_dir>>

\* an exception leaves the "with ThreadPoolExecutor" block: shutdown(wait=True)
\* waits for every submitted task, then the exception leaves run()
Unwind ==
    /\ pc = "unwind"
    /\ \A t \in DOMAIN task : Completed(t)
    /\ pc' = "raised"
    /\ returned' = Append(returned, [ok |-> FALSE, exc |-> exc])
    /\ UNCHANGED <<api, insert_many_outcomes,
                   dir, write_to_datastore, max_workers, run_no, scan_pos,
                   advocate_files, stats, task, consumed, cur, cur_pos, batch,
                   add_advocates_calls, advocates, invalid_json_dir,
                   failed_validation_dir, exc>>

\* "if batch and self.datastore:" add_advocates(batch); batch.clear(); then
\* return self.stats
FinalFlush ==
    /\ pc = "final_flush"
    /\ IF batch # <<>> /\ ~HasDatastore
       THEN /\ exc' = "AttributeError"
            /\ pc' = "raised"
            /\ returned' = Append(returned, [ok |-> FALSE, exc |-> "AttributeError"])
            /\ UNCHANGED <<batch, add_advocates_calls, insert_many_outcomes>>
       ELSE IF batch # <<>> /\ DatastoreTruthy
       THEN \E outcome \in InsertManyOutcomes :
               /\ add_advocates_calls' = Append(add_advocates_calls, batch)
               /\ insert_many_outcomes' = Append(insert_many_outcomes, outcome)
               /\ IF DatastoreManager_add_advocates(outcome) = "returns"
                  THEN /\ batch' = <<>>
                       /\ pc' = "done"
                       /\ returned' = Append(returned, [ok |-> TRUE, stats |-> stats])
                       /\ UNCHANGED exc
                  ELSE /\ exc' = "add_advocates"
                       /\ pc' = "raised"
                       /\ returned' = Append(returned,
                                             [ok |-> FALSE, exc |-> "add_advocates"])
                       /\ UNCHANGED batch
       ELSE /\ pc' = "done"
            /\ returned' = Append(returned, [ok |-> TRUE, stats |-> stats])
            /\ UNCHANGED <<batch, add_advocates_calls, insert_many_outcomes, exc>>
    /\ UNCHANGED <<api, dir, write_to_datastore, max_workers, run_no, scan_pos,
                   advocate_files, stats, task, consumed, cur, cur_pos, advocates,
                   invalid_json_dir, failed_validation_dir>>

(***************************************************************************)
(* _process_file, run by the threads of the pool.  "x += 1" on a counter   *)
(* of self.stats is a read (into reg) and a later write.                   *)
(***************************************************************************)
\* a thread of the pool is free for the oldest queued work item
Start(t) ==
    /\ task[t].st = "pending"
    /\ \A u \in 1..(t - 1) : task[u].st # "pending"
    /\ Cardinality({u \in DOMAIN task : Running(u)}) < max_workers

\* a thread takes the work item: payload = self._load_json(path), then the
\* read of the counter that "if payload is None" selects
LoadJson(t) ==
    /\ Start(t)
    /\ LET file == FileAt(advocate_files[t])
           ok == ~LoadQuarantines(file) \/ dir.parent_writable
       IN /\ invalid_json_dir' =
                IF LoadQuarantines(file) /\ ok
                THEN invalid_json_dir \cup {advocate_files[t]}
                ELSE invalid_json_dir
          /\ task' = IF _load_json(file) = JNull
                     THEN [task EXCEPT
                              ![t] = AfterQuarantine(
                                         [@ EXCEPT !.st = "w_skipped",
                                                   !.reg = stats.files_skipped], ok)]
                     ELSE [task EXCEPT ![t].st = "w_parsed",
                                       ![t].reg = stats.files_parsed]
    /\ UNCHANGED <<api, insert_many_outcomes,
                   dir, write_to_datastore, max_workers, pc, run_no, returned,
                   scan_pos, advocate_files, stats, consumed, cur, cur_pos, batch,
                   add_advocates_calls, advocates, failed_validation_dir, exc>>

\* the write of self.stats.files_skipped += 1; return []
WriteSkipped(t) ==
    /\ task[t].st = "w_skipped"
    /\ stats' = [stats EXCEPT !.files_skipped = task[t].reg + 1]
    /\ task' = [task EXCEPT
                   ![t] = [Incremented(@, "files_skipped") EXCEPT !.st = "finished"]]
    /\ UNCHANGED <<api, insert_many_outcomes,
                   dir, write_to_datastore, max_workers, pc, run_no, returned,
                   scan_pos, advocate_files, consumed, cur, cur_pos, batch,
                   add_advocates_calls, advocates, invalid_json_dir,
                   failed_validation_dir, exc>>

\* the loop "for record in records" goes to record i, or the task returns
NextRecord(tk, n, i) ==
    IF i > n THEN [tk EXCEPT !.st = "finished"]
    ELSE [tk EXCEPT !.st = "record", !.idx = i]

\* the write of self.stats.files_parsed += 1
WriteParsed(t) ==
    /\ task[t].st = "w_parsed"
    /\ stats' = [stats EXCEPT !.files_parsed = task[t].reg + 1]
    /\ task' = [task EXCEPT
                   ![t] = NextRecord(Incremented(@, "files_parsed"),
                                     NumRecords(FileAt(advocate_files[t])), 1)]
    /\ UNCHANGED <<api, insert_many_outcomes,
                   dir, write_to_datastore, max_workers, pc, run_no, returned,
                   scan_pos, advocate_files, consumed, cur, cur_pos, batch,
                   add_advocates_calls, advocates, invalid_json_dir,
                   failed_validation_dir, exc>>

\* a task that also keeps the record that failed validation in its result
JudgedBestEffort(tk, outcome, p, s) ==
    CASE outcome = "raises" -> [tk EXCEPT !.st = "failed"]
      [] outcome = "valid" ->
            [tk EXCEPT !.st = "w_valid", !.reg = s.records_valid,
                       !.result = ListAppend(@, p, tk.idx)]
      [] OTHER ->
            [tk EXCEPT !.st = "w_invalid", !.reg = s.records_invalid,
                       !.result = ListAppend(@, p, tk.idx)]

\* the task after the record at hand came to the outcome: an exception other
\* than ValidationError ends the task; a model is appended to the local list
\* before records_valid is read; a ValidationError leads to records_invalid
Judged(tk, outcome, p, s) ==
    CASE outcome = "raises" -> [tk EXCEPT !.st = "failed"]
      [] outcome = "valid" ->
            [tk EXCEPT !.st = "w_valid", !.reg = s.records_valid,
                       !.result = ListAppend(@, p, tk.idx)]
      [] OTHER ->
            [tk EXCEPT !.st = "w_invalid", !.reg = s.records_invalid]

\* one record: _clean_advocate, _validate_advocate, then the read of the
\* counter to increment
CleanValidate(t) ==
    /\ task[t].st = "record"
    /\ LET p == advocate_files[t]
           outcome == OutcomeAt(p, task[t].idx)
       IN task' = [task EXCEPT ![t] = Judged(@, outcome, p, stats)]
    /\ UNCHANGED <<api, insert_many_outcomes,
                   dir, write_to_datastore, max_workers, pc, run_no, returned,
                   scan_pos, advocate_files, stats, consumed, cur, cur_pos, batch,
                   add_advocates_calls, advocates, invalid_json_dir,
                   failed_validation_dir, exc>>

\* the write of self.stats.records_valid += 1
WriteValid(t) ==
    /\ task[t].st = "w_valid"
    /\ stats' = [stats EXCEPT !.records_valid = task[t].reg + 1]
    /\ task' = [task EXCEPT
                   ![t] = NextRecord(Incremented(@, "records_valid"),
                                     NumRecords(FileAt(advocate_files[t])), @.idx + 1)]
    /\ UNCHANGED <<api, insert_many_outcomes,
                   dir, write_to_datastore, max_workers, pc, run_no, returned,
                   scan_pos, advocate_files, consumed, cur, cur_pos, batch,
                   add_advocates_calls, advocates, invalid_json_dir,
                   failed_validation_dir, exc>>

\* _write_failed_validation_record: the artifact is named after the stem of
\* the source file, and write_text replaces a file of that name
ArtifactName(p) == p

WriteArtifact(d, name, payload) ==
    [n \in DOMAIN d \cup {name} |-> IF n = name THEN payload ELSE d[n]]

\* the write of self.stats.records_invalid += 1, then the quarantine of a
\* record that failed validation
WriteInvalid(t) ==
    /\ task[t].st = "w_invalid"
    /\ stats' = [stats EXCEPT !.records_invalid = task[t].reg + 1]
    /\ LET p == advocate_files[t]
           i == task[t].idx
           writes == OutcomeAt(p, i) = "invalid"
           ok == ~writes \/ dir.parent_writable
       IN /\ failed_validation_dir' =
                IF writes /\ ok
                THEN WriteArtifact(failed_validation_dir, ArtifactName(p),
                                   [source_file |-> p, record |-> i])
                ELSE failed_validation_dir
          /\ task' = [task EXCEPT
                         ![t] = AfterQuarantine(
                                    NextRecord(Incremented(@, "records_invalid"),
                                               NumRecords(FileAt(p)), @.idx + 1), ok)]
    /\ UNCHANGED <<api, insert_many_outcomes,
                   dir, write_to_datastore, max_workers, pc, run_no, returned,
                   scan_pos, advocate_files, consumed, cur, cur_pos, batch,
                   add_advocates_calls, advocates, invalid_json_dir, exc>>

\* a step of a worker thread
WorkerStep(t) ==
    \/ LoadJson(t)
    \/ WriteSkipped(t)
    \/ WriteParsed(t)
    \/ CleanValidate(t)
    \/ WriteValid(t)
    \/ WriteInvalid(t)

\* a step of the thread executing run()
CoordinatorStep ==
    \/ RunStart
    \/ ScanEntry
    \/ ScanDone
    \/ Submit
    \/ Collect
    \/ CollectDone
    \/ Aggregate
    \/ FlushCheck
    \/ Unwind
    \/ FinalFlush

Next ==
    \/ CoordinatorStep
    \/ \E t \in DOMAIN task : WorkerStep(t)

Spec == Init /\ [][Next]_vars

(***************************************************************************)
(* What a run is expected to leave, computed from the directory alone.     *)
(***************************************************************************)
\* the records of a file that come to the given outcome
CountRecords(file, outcome) ==
    LET payload == file.payload
    IN IF payload.t = "list"
       THEN file.times *
            Cardinality({i \in 1..Len(payload.l) : RecordOutcome(payload.l[i]) = outcome})
       ELSE IF RecordOutcome(payload) = outcome THEN 1 ELSE 0

\* what one entry of the directory adds to the counters when every
\* increment takes effect
Contribution(file) ==
    IF file.name = "other" THEN IngestStats
    ELSE IF file.name = "junk" \/ _load_json(file) = JNull
         THEN [IngestStats EXCEPT !.files_seen = 1, !.files_skipped = 1]
         ELSE [files_seen |-> 1, files_parsed |-> 1, files_skipped |-> 0,
               records_valid |-> CountRecords(file, "valid"),
               records_invalid |-> CountRecords(file, "invalid")
                                   + CountRecords(file, "uncleanable")]

\* the contribution of each content
Contributions == [c \in DOMAIN Contents |-> Contribution(Contents[c])]

RECURSIVE SumContributions(_)
\* the sum of the contributions of the first n entries
SumContributions(n) ==
    IF n = 0 THEN IngestStats
    ELSE LET rest == SumContributions(n - 1)
             c == Contributions[dir.entries[n]]
         IN [k \in DOMAIN IngestStats |-> rest[k] + c[k]]

ExpectedStats ==
    IF dir.is_dir THEN SumContributions(Len(dir.entries)) ELSE IngestStats

\* the entries the scanner yields, and the junk entries it filters out
YieldedEntries == {p \in DOMAIN dir.entries : FileAt(p).name = "json"}
JunkEntries == {p \in DOMAIN dir.entries : FileAt(p).name = "junk"}

\* some record of a yielded file makes _clean_advocate raise
ContentRaises ==
    \E p \in YieldedEntries :
        /\ _load_json(FileAt(p)) # JNull
        /\ CountRecords(FileAt(p), "raises") > 0

\* the call of run() at hand is over, by a return or by an exception
RunOver == pc \in {"done", "raised"}

\* the number of records in all batches given to add_advocates
RECURSIVE SentTotal(_)
SentTotal(calls) ==
    IF calls = <<>> THEN 0 ELSE ListLen(calls[1]) + SentTotal(Tail(calls))

\* in how many batches given to add_advocates the advocate <<p, i>> is
SentCount(p, i) ==
    Cardinality({k \in DOMAIN add_advocates_calls :
                    ListCount(add_advocates_calls[k], p, i) > 0})

\* the records of the yielded file p that validate
ValidRecords(p) ==
    IF _load_json(FileAt(p)) = JNull THEN {}
    ELSE {i \in 1..NumRecords(FileAt(p)) : OutcomeAt(p, i) = "valid"}

(***************************************************************************)
(* C1..C10                                                                 *)
(***************************************************************************)
\* C1: run() never raises because of the content of an ingested file: no
\* exception of a worker task leaves run(), whatever the files hold.
C1_RunNeverRaisesOnContent == ~(pc = "raised" /\ exc = "task")

\* C2: the counters and the batch buffer are written only by the thread
\* executing run(): a step that changes stats or batch is never a step of a
\* worker task.
C2_OnlyCoordinatorWrites ==
    [][(stats' # stats \/ batch' # batch) => ~(\E t \in DOMAIN task : WorkerStep(t))]_vars

\* C3: for every interleaving of the worker tasks, every counter of the
\* IngestStats run() returns is the sum of the per-file contributions.
C3_NoIncrementLost == (pc = "done" /\ max_workers >= 2) => stats = ExpectedStats

\* C4: with a persistence sink, when run() returns every validated advocate
\* has been given to add_advocates in exactly one batch, the records sent
\* over all flushes number records_valid, and the batch buffer is empty.
C4_SentEqualsRecordsValid ==
    (pc = "done" /\ write_to_datastore) =>
        /\ \A p \in YieldedEntries : \A i \in ValidRecords(p) : SentCount(p, i) = 1
        /\ SentTotal(add_advocates_calls) = stats.records_valid
        /\ batch = <<>>

\* C5: the batch buffer never holds more than BATCH_SIZE records and holds
\* BATCH_SIZE only until the check that flushes and clears it; every batch
\* sent before the final flush has exactly BATCH_SIZE records, the final
\* flush sends 1..BATCH_SIZE-1 records or nothing, and no batch is empty.
C5_BatchBounded ==
    /\ ListLen(batch) <= BATCH_SIZE
    /\ pc # "flush_check" => ListLen(batch) < BATCH_SIZE
    /\ pc = "done" => batch = <<>>
    /\ \A k \in DOMAIN add_advocates_calls :
          /\ ListLen(add_advocates_calls[k]) \in 1..BATCH_SIZE
          /\ (k < Len(add_advocates_calls) \/ pc # "done")
                => ListLen(add_advocates_calls[k]) = BATCH_SIZE

\* a run that flushed a full batch in the loop and the remainder at the end
C5_Witness ==
    /\ pc = "done"
    /\ Len(add_advocates_calls) >= 2
    /\ ListLen(add_advocates_calls[1]) = BATCH_SIZE
    /\ ListLen(add_advocates_calls[Len(add_advocates_calls)]) < BATCH_SIZE

\* C6: in dry-run over a directory with a valid record (and no record that
\* makes the cleaning raise), run() completes, never calls the sink, leaves
\* the validated advocates in self.advocates, and returns the counters a
\* run with a sink returns.
C6_DryRunCompletes ==
    (~write_to_datastore /\ RunOver /\ ~ContentRaises
        /\ ExpectedStats.records_valid >= 1) =>
        /\ pc = "done"
        /\ add_advocates_calls = <<>>
        /\ ListLen(advocates) = ExpectedStats.records_valid
        /\ \A p \in YieldedEntries : \A i \in ValidRecords(p) :
              ListCount(advocates, p, i) = 1
        /\ stats = ExpectedStats

\* C7: two runs over the unchanged directory with no persistence return
\* identical IngestStats whatever the scheduling, and the second run starts
\* from zero counters and an empty advocates collection.
C7_RerunIdentical ==
    (~write_to_datastore /\ ~ContentRaises) =>
        /\ Len(returned) >= 2 =>
              /\ returned[1].ok /\ returned[2].ok
              /\ returned[1].stats = returned[2].stats
        /\ (run_no >= 2 /\ pc = "scan" /\ scan_pos = 0) =>
              stats = IngestStats /\ advocates = <<>>

\* the directory holds only well-formed single-object files with a valid
\* advocate and files no parser decodes
OnlyValidAndUnparsable ==
    /\ dir.is_dir
    /\ \A p \in DOMAIN dir.entries : dir.entries[p] \in {"valid", "unparsable"}

\* C8: over N well-formed single-object files and M files no parser decodes,
\* run() returns files_seen = N+M, files_parsed = N, records_valid = N,
\* records_invalid = 0, and M artifacts are in the invalid_json directory.
C8_ValidAndMalformedFiles ==
    (RunOver /\ OnlyValidAndUnparsable) =>
        LET N == Cardinality({p \in DOMAIN dir.entries : dir.entries[p] = "valid"})
            M == Cardinality({p \in DOMAIN dir.entries : dir.entries[p] = "unparsable"})
        IN /\ pc = "done"
           /\ stats.files_seen = N + M
           /\ stats.files_parsed = N
           /\ stats.records_valid = N
           /\ stats.records_invalid = 0
           /\ Cardinality(invalid_json_dir) = M

\* the yielded files that decode to an array of objects
ArrayFiles ==
    {p \in YieldedEntries :
        /\ _load_json(FileAt(p)) # JNull
        /\ FileAt(p).payload.t = "list"
        /\ \A i \in DOMAIN FileAt(p).payload.l : FileAt(p).payload.l[i].t = "obj"}

\* C9: a file holding an array of K objects of which J fail validation adds
\* K-J to records_valid and J to records_invalid (read off a directory of
\* that one file) and leaves J artifacts naming it in failed_validation.
C9_OneArtifactPerRejectedRecord ==
    (pc = "done" /\ ~ContentRaises) =>
        \A p \in ArrayFiles :
            LET K == NumRecords(FileAt(p))
                J == CountRecords(FileAt(p), "invalid")
            IN /\ Len(dir.entries) = 1 =>
                    /\ stats.records_valid = K - J
                    /\ stats.records_invalid = J
               /\ Cardinality({n \in DOMAIN failed_validation_dir :
                                 failed_validation_dir[n].source_file = p}) = J

\* the scanner is exhausted and no worker task has been submitted
ScanExhausted ==
    \/ pc = "scan" /\ (~dir.is_dir \/ scan_pos = Len(dir.entries))
    \/ pc = "submit" /\ task = <<>>

\* C10 as stated: once the scanner is exhausted files_seen is the number of
\* paths it yielded, and files_skipped the number of junk entries.
C10_SeenEqualsYielded ==
    ScanExhausted =>
        /\ stats.files_seen = Len(advocate_files)
        /\ stats.files_skipped = IF dir.is_dir THEN Cardinality(JunkEntries) ELSE 0

\* C10: once the scanner is exhausted files_seen is the number of *.json
\* entries, yielded or junk; files_skipped is the number of junk entries,
\* none of which is yielded; the yielded paths are the other *.json entries.
C10_SeenCountsEveryJsonEntry ==
    ScanExhausted =>
        LET junk == IF dir.is_dir THEN JunkEntries ELSE {}
            yielded == IF dir.is_dir THEN YieldedEntries ELSE {}
        IN /\ stats.files_seen = Cardinality(yielded) + Cardinality(junk)
           /\ stats.files_skipped = Cardinality(junk)
           /\ {advocate_files[k] : k \in DOMAIN advocate_files} = yielded
           /\ Len(advocate_files) = Cardinality(yielded)

\* the scanner is exhausted over a directory with a junk and a yielded entry
C10_Witness ==
    /\ ScanExhausted
    /\ dir.is_dir
    /\ JunkEntries # {}
    /\ YieldedEntries # {}
    /\ stats.files_seen = Len(dir.entries)

\* the call of run() at hand returned over an empty worklist
ReturnedOnEmptyWorklist == run_no >= 1 /\ pc = "done" /\ advocate_files = <<>>

\* C11 as stated: over an empty worklist run() returns an IngestStats with
\* all five counters zero.
C11_EmptyWorklistAllZero ==
    ReturnedOnEmptyWorklist =>
        \A k \in DOMAIN stats : stats[k] = 0

\* C11: whenever the worklist is empty run() goes from the scan to its
\* return: no task is submitted and the sink is not called; the returned
\* IngestStats has files_parsed, records_valid and records_invalid zero, and
\* files_seen and files_skipped both the number of junk entries scanned.
C11_EmptyWorklistReturns ==
    /\ (run_no >= 1 /\ advocate_files = <<>>) =>
          /\ pc \in {"scan", "done"}
          /\ task = <<>>
          /\ add_advocates_calls = <<>>
          /\ batch = <<>>
    /\ ReturnedOnEmptyWorklist =>
          /\ stats.files_parsed = 0
          /\ stats.records_valid = 0
          /\ stats.records_invalid = 0
          /\ stats.files_seen = (IF dir.is_dir THEN Cardinality(JunkEntries) ELSE 0)
          /\ stats.files_skipped = stats.files_seen
          /\ returned[Len(returned)] = [ok |-> TRUE, stats |-> stats]

\* run() returned over a directory that holds junk entries only
C11_Witness ==
    /\ ReturnedOnEmptyWorklist
    /\ dir.is_dir
    /\ JunkEntries # {}
    /\ stats.files_seen = Cardinality(JunkEntries)

\* C12: over an ingest directory that does not exist or is not a directory
\* the scanner yields nothing and raises nothing, and run() returns an
\* IngestStats of zeros; no task is dispatched, no artifact is written and
\* the sink is not called.
C12_MissingDirectory ==
    ~dir.is_dir =>
        /\ pc \in {"idle", "scan", "done"}
        /\ exc = "none"
        /\ advocate_files = <<>>
        /\ task = <<>>
        /\ \A k \in DOMAIN stats : stats[k] = 0
        /\ invalid_json_dir = {}
        /\ failed_validation_dir = <<>>
        /\ add_advocates_calls = <<>>
        /\ \A n \in DOMAIN returned :
              returned[n].ok /\ \A k \in DOMAIN stats : returned[n].stats[k] = 0

\* run() returned over a missing directory
C12_Witness == ~dir.is_dir /\ pc = "done" /\ Len(returned) >= 1

\* the task has returned or ended with an exception
TaskOver(t) == task[t].st \in {"finished", "failed"}

\* the file the task processes
TaskFile(t) == FileAt(advocate_files[t])

\* the artifacts in failed_validation that name the file at position p
FailedValidationArtifacts(p) ==
    {n \in DOMAIN failed_validation_dir : failed_validation_dir[n].source_file = p}

\* C13: every candidate file that the strict or the permissive parser
\* decodes, whatever the decoded value, increments files_parsed exactly once
\* and files_skipped not at all, and no unparsable-JSON artifact is written.
C13_DecodedFileIsParsed ==
    \A t \in DOMAIN task :
        (TaskOver(t) /\ ReadsAsText(TaskFile(t)) /\ PermissiveParses(TaskFile(t))) =>
            /\ task[t].incs.files_parsed = 1
            /\ task[t].incs.files_skipped = 0
            /\ advocate_files[t] \notin invalid_json_dir

\* C14: json5.load is called only after json.load has failed, and the
\* quarantine write only after both have failed; a file neither decodes is
\* written to invalid_json once, increments files_skipped once and
\* files_parsed never, and none of its records is cleaned or validated (the
\* one write leaves the artifact unless mkdir or write_text raised OSError).
C14_QuarantineAfterBothParsers ==
    /\ \A t \in DOMAIN task :
          LET file == TaskFile(t)
              strict == CallPositions(file, "json.load")
              permissive == CallPositions(file, "json5.load")
              quarantine == CallPositions(file, "_write_invalid_json_record")
          IN /\ permissive # {} =>
                   /\ ~StrictParses(file)
                   /\ \A j \in permissive : \E i \in strict : i < j
             /\ quarantine # {} =>
                   /\ ~StrictParses(file) /\ ~PermissiveParses(file)
                   /\ \A k \in quarantine :
                         /\ \E i \in strict : i < k
                         /\ \E j \in permissive : j < k
             /\ (ReadsAsText(file) /\ ~StrictParses(file) /\ ~PermissiveParses(file)) =>
                   /\ Cardinality(quarantine) = 1
                   /\ task[t].st \in {"pending", "w_skipped", "finished"}
                   /\ task[t].st # "pending" =>
                         advocate_files[t] \in invalid_json_dir \/ task[t].oserror
                   /\ task[t].incs.files_skipped = (IF task[t].st = "finished" THEN 1 ELSE 0)
                   /\ task[t].incs.files_parsed = 0
                   /\ task[t].incs.records_valid = 0
                   /\ task[t].incs.records_invalid = 0
                   /\ task[t].idx = 0
                   /\ task[t].result = <<>>
    /\ \A p \in invalid_json_dir :
          ~StrictParses(FileAt(p)) /\ ~PermissiveParses(FileAt(p))

\* the task of a file that no parser decodes has returned
C14_Witness ==
    \E t \in DOMAIN task :
        /\ TaskFile(t).text = "unparsable"
        /\ task[t].st = "finished"
        /\ task[t].incs.files_skipped = 1
        /\ advocate_files[t] \in invalid_json_dir

\* C15: a candidate file that is not UTF-8 text is never parsed; it
\* increments files_skipped once, files_parsed never, contributes no record
\* to records_valid or records_invalid, and leaves no quarantine artifact.
C15_NonTextFileSkipped ==
    \A t \in DOMAIN task :
        LET file == TaskFile(t)
        IN file.text = "nontext" =>
              /\ CallPositions(file, "json.load") = {}
              /\ CallPositions(file, "json5.load") = {}
              /\ task[t].st \in {"pending", "w_skipped", "finished"}
              /\ task[t].incs.files_skipped = (IF task[t].st = "finished" THEN 1 ELSE 0)
              /\ task[t].incs.files_parsed = 0
              /\ task[t].incs.records_valid = 0
              /\ task[t].incs.records_invalid = 0
              /\ task[t].idx = 0
              /\ task[t].result = <<>>
              /\ advocate_files[t] \notin invalid_json_dir
              /\ FailedValidationArtifacts(advocate_files[t]) = {}

\* the task of a file that is not UTF-8 text has returned
C15_Witness ==
    \E t \in DOMAIN task :
        /\ TaskFile(t).text = "nontext"
        /\ task[t].st = "finished"
        /\ task[t].incs.files_skipped = 1

\* the records of each content that come to each outcome
Hits ==
    [c \in DOMAIN Contents |->
        [outcome \in {"valid", "invalid"} |->
            {i \in DOMAIN Outcomes[c] : Outcomes[c][i] = outcome}]]

\* how many of the first k records of the file at position p come to the outcome
CountUpTo(p, k, outcome) ==
    LET n == Len(Outcomes[dir.entries[p]])
        hits == Hits[dir.entries[p]][outcome]
    IN IF n = 0 THEN 0
       ELSE (k \div n) * Cardinality(hits) + Cardinality({i \in hits : i <= k % n})

\* the records of its file for which the task has completed the counting
CountedRecords(t) ==
    CASE task[t].st \in {"record", "w_valid", "w_invalid", "failed"} -> task[t].idx - 1
      [] task[t].st = "finished" /\ task[t].incs.files_parsed = 1 ->
            NumRecords(TaskFile(t))
      [] OTHER -> 0

\* every advocate of the list was validated from a record that is valid
OnlyValidRecords(l) ==
    \A k \in DOMAIN l :
        LET o == Outcomes[dir.entries[l[k].p]]
            n == Len(o)
        IN \/ Cardinality(Hits[dir.entries[l[k].p]]["valid"]) = n
           \/ \A j \in 0..(n - 1) :
                  l[k].lo + j <= l[k].hi => o[((l[k].lo + j - 1) % n) + 1] = "valid"

\* C16: a record that fails schema validation is never in a task's result
\* list, the batch buffer, a batch sent to the sink or self.advocates, is
\* never counted in records_valid, is counted exactly once in
\* records_invalid, and is routed to the failed-validation writer.
C16_InvalidRecordRejected ==
    /\ OnlyValidRecords(batch)
    /\ OnlyValidRecords(advocates)
    /\ \A c \in DOMAIN add_advocates_calls : OnlyValidRecords(add_advocates_calls[c])
    /\ \A t \in DOMAIN task :
          LET p == advocate_files[t]
              counted == CountedRecords(t)
          IN /\ OnlyValidRecords(task[t].result)
             /\ task[t].incs.records_valid = CountUpTo(p, counted, "valid")
             /\ task[t].incs.records_invalid = CountUpTo(p, counted, "invalid")
             /\ CountUpTo(p, counted, "invalid") >= 1 =>
                   FailedValidationArtifacts(p) # {} \/ task[t].oserror

\* a task has counted a record that failed validation and gone on to
\* return the valid record that follows it
C16_Witness ==
    \E t \in DOMAIN task :
        /\ task[t].st = "finished"
        /\ task[t].incs.records_invalid >= 1
        /\ task[t].incs.records_valid >= 1
        /\ ListLen(task[t].result) = task[t].incs.records_valid
        /\ FailedValidationArtifacts(advocate_files[t]) # {}

C18_CleaningNeverRaises ==
    \A t \in DOMAIN task :
        (/\ task[t].st \in {"w_valid", "w_invalid", "failed"}
         /\ RecordAt(advocate_files[t], task[t].idx).t = "obj")
        => /\ task[t].st # "failed"
           /\ ~_clean_advocate_raises(RecordAt(advocate_files[t], task[t].idx))

\* C19: cleaning is idempotent: for every record a task has cleaned,
\* cleaning the cleaned record gives the cleaned record, and each of the
\* rules clean_email, clean_handle and clean_date gives for its own result
\* that result.
C19_CleaningIdempotent ==
    \A t \in DOMAIN task :
        task[t].st \in {"w_valid", "w_invalid"} =>
            LET raw == RecordAt(advocate_files[t], task[t].idx)
                cleaned == _clean_advocate(raw)
            IN /\ ~_clean_advocate_raises(cleaned)
               /\ _clean_advocate(cleaned) = cleaned
               /\ clean_email(get(cleaned, "email")) = get(cleaned, "email")
               /\ clean_handle(get(cleaned, "instagram_handle"))
                     = get(cleaned, "instagram_handle")
               /\ clean_date(get(cleaned, "joined_at")) = get(cleaned, "joined_at")

\* C20: clean_handle returns absent for an input that is empty or that is
\* empty after trimming, lower-casing and removing every character outside
\* [a-z0-9_@]; for every other input it returns the filtered string, with
\* "@" put in front when it does not start with "@".  Stated of the handle
\* of every record a task has cleaned.
C20_HandleRule ==
    \A t \in DOMAIN task :
        task[t].st \in {"w_valid", "w_invalid"} =>
            LET raw == RecordAt(advocate_files[t], task[t].idx)
                value == get(raw, "instagram_handle")
                filtered == IF value.t = "str"
                            THEN SelectSeq(lower(strip(value.s)),
                                           LAMBDA c : c \in HandleChars)
                            ELSE <<>>
                handle == get(_clean_advocate(raw), "instagram_handle")
            IN handle = IF filtered = <<>> THEN JNull
                        ELSE IF filtered[1] = "@" THEN JStr(filtered)
                        ELSE JStr(<<"@">> \o filtered)

(***************************************************************************)
(* C21..C30                                                                *)
(***************************************************************************)
\* the Advocate that a task at "w_valid" has just validated
ModelAt(t) == _validate_advocate(_clean_advocate(RecordAt(advocate_files[t], task[t].idx)))

\* C21: the handle validator of Advocate leaves each handle absent or a
\* string of characters of [a-z0-9_@] that starts with "@", and after
\* CleaningUtils.clean_handle it never leaves the bare "@" as the handle of
\* a validated Advocate.
C21_ValidatedHandle ==
    \A t \in DOMAIN task :
        task[t].st = "w_valid" =>
            \A h \in {"instagram_handle", "tiktok_handle"} :
                LET handle == get(ModelAt(t), h)
                IN \/ handle = JNull
                   \/ /\ handle.t = "str"
                      /\ handle.s # <<>>
                      /\ handle.s[1] = "@"
                      /\ \A i \in DOMAIN handle.s : handle.s[i] \in HandleChars
                      /\ handle.s # <<"@">>

\* the tasks of the programs of an advocate, as <<program, task>> positions
TaskPositions(advocate) ==
    LET programs == get_or_empty(advocate, "advocacy_programs").l
    IN UNION {{<<i, j>> : j \in DOMAIN get_or_empty(programs[i], "tasks_completed").l} :
                 i \in DOMAIN programs}

TaskAt(advocate, pos) ==
    get_or_empty(get_or_empty(advocate, "advocacy_programs").l[pos[1]],
                 "tasks_completed").l[pos[2]]

\* the counters of a task
TaskCounters == {"likes", "comments", "shares", "reach"}

\* C22: in every validated Advocate each task's likes, comments, shares and
\* reach is an integer >= 0, and is 0 when the source has no such field or a
\* value that does not parse.
C22_TaskCountersNonNegative ==
    \A t \in DOMAIN task :
        task[t].st = "w_valid" =>
            LET raw == RecordAt(advocate_files[t], task[t].idx)
                model == ModelAt(t)
            IN \A pos \in TaskPositions(model) : \A k \in TaskCounters :
                  LET source == get(TaskAt(raw, pos), k)
                      value == get(TaskAt(model, pos), k)
                  IN /\ value.t = "num"
                     /\ value.n >= 0
                     /\ (source = JNull \/ (source.t = "str" /\ ~IsDecimal(strip(source.s))))
                           => value.n = 0

\* the fields the Advocate schema declares
AdvocateFields ==
    {"name", "user_id", "email", "joined_at", "instagram_handle", "tiktok_handle",
     "advocacy_programs"}

\* the record without the top-level fields the schema does not declare
KnownFields(record) == JObj([k \in DOMAIN record.f \cap AdvocateFields |-> record.f[k]])

\* C23: a raw record that is otherwise valid and has a top-level field
\* unknown to the Advocate schema is counted in records_valid, and the
\* Advocate built from it has that field with its source value.
C23_UnknownTopLevelFieldKept ==
    \A t \in DOMAIN task :
        LET raw == RecordAt(advocate_files[t], task[t].idx)
        IN (/\ task[t].st \in {"w_valid", "w_invalid", "failed"}
            /\ raw.t = "obj"
            /\ DOMAIN raw.f \ AdvocateFields # {}
            /\ RecordOutcome(KnownFields(raw)) = "valid")
           => /\ task[t].st = "w_valid"
              /\ \A k \in DOMAIN raw.f \ AdvocateFields : get(ModelAt(t), k) = raw.f[k]

\* a program or a task of the record has a field unknown to its schema
UnknownNestedField(raw) ==
    LET programs == get_or_empty(raw, "advocacy_programs").l
    IN \/ \E i \in DOMAIN programs : DOMAIN programs[i].f \ ProgramFields # {}
       \/ \E pos \in TaskPositions(raw) : DOMAIN TaskAt(raw, pos).f \ TaskFields # {}

\* C24: a raw record in which a program or a task has a field unknown to
\* its schema is rejected: it comes to the increment of records_invalid and
\* to the failed-validation writer, never to the increment of records_valid.
C24_UnknownNestedFieldRejected ==
    \A t \in DOMAIN task :
        LET raw == RecordAt(advocate_files[t], task[t].idx)
        IN (/\ task[t].st \in {"w_valid", "w_invalid", "failed"}
            /\ raw.t = "obj"
            /\ ~_clean_advocate_raises(raw)
            /\ UnknownNestedField(raw))
           => /\ task[t].st = "w_invalid"
              /\ OutcomeAt(advocate_files[t], task[t].idx) = "invalid"

\* a program of the record has a program_id that is absent, null or empty
ProgramIdMissing(raw) ==
    LET programs == get_or_empty(raw, "advocacy_programs").l
    IN \E i \in DOMAIN programs : get(programs[i], "program_id") \in {JNull, JStr(<<>>)}

\* the records of each content, and the place in them of record i of a file
RecordsOf(c) ==
    LET payload == Contents[c].payload
    IN IF payload.t = "list" THEN payload.l ELSE <<payload>>

ElementAt(p, i) == ((i - 1) % Len(Outcomes[dir.entries[p]])) + 1

\* the records of each content that the cleaner takes and that have a
\* program without program_id
MissingProgramId ==
    [c \in DOMAIN Contents |->
        {e \in DOMAIN RecordsOf(c) :
            /\ RecordsOf(c)[e].t = "obj"
            /\ ~_clean_advocate_raises(RecordsOf(c)[e])
            /\ ProgramIdMissing(RecordsOf(c)[e])}]

\* those of them that the cleaner returns whole, every program in its
\* place and the missing program_id null
CleanedWhole ==
    [c \in DOMAIN Contents |->
        {e \in MissingProgramId[c] :
            LET raw == RecordsOf(c)[e]
                cleaned == _clean_advocate(raw)
                programs == get(raw, "advocacy_programs").l
            IN /\ Truthy(cleaned)
               /\ Len(get(cleaned, "advocacy_programs").l) = Len(programs)
               /\ \A i \in DOMAIN programs :
                     get(programs[i], "program_id") \in {JNull, JStr(<<>>)}
                     => get(get(cleaned, "advocacy_programs").l[i], "program_id") = JNull}]

\* C25: a record with a program whose program_id is absent, null or empty
\* passes the cleaning step whole, with that program_id null; it is rejected
\* at validation: it comes to the increment of records_invalid, and once it
\* is counted the failed-validation artifact of its file holds it.
C25_MissingProgramIdRejectedAtValidation ==
    \A t \in DOMAIN task :
        LET p == advocate_files[t]
            c == dir.entries[p]
            last == CountedRecords(t)
        IN /\ (/\ task[t].st \in {"w_valid", "w_invalid", "failed"}
               /\ ElementAt(p, task[t].idx) \in MissingProgramId[c])
              => /\ ElementAt(p, task[t].idx) \in CleanedWhole[c]
                 /\ task[t].st = "w_invalid"
                 /\ OutcomeAt(p, task[t].idx) = "invalid"
           /\ (/\ last >= 1
               /\ task[t].st \in {"record", "finished"}
               /\ ElementAt(p, last) \in MissingProgramId[c])
              => /\ task[t].incs.records_invalid >= 1
                 /\ task[t].incs.records_valid = CountUpTo(p, last, "valid")
                 /\ dir.parent_writable =>
                       /\ ArtifactName(p) \in DOMAIN failed_validation_dir
                       /\ failed_validation_dir[ArtifactName(p)]
                              = [source_file |-> p, record |-> last]

\* a task has finished a file of records with programs without program_id,
\* all of them counted as invalid, the last of them in the artifact
C25_Witness ==
    \E t \in DOMAIN task :
        /\ task[t].st = "finished"
        /\ CountedRecords(t) >= 1
        /\ ElementAt(advocate_files[t], CountedRecords(t))
               \in MissingProgramId[dir.entries[advocate_files[t]]]
        /\ task[t].incs.records_invalid = NumRecords(TaskFile(t))
        /\ task[t].incs.records_valid = 0
        /\ ArtifactName(advocate_files[t]) \in DOMAIN failed_validation_dir

\* C26: for every program of every raw record the cleaned
\* total_sales_attributed is a finite number, never null: it is 0 when the
\* source value is absent or does not parse as a number, "inf" and "nan"
\* included, and the record is not rejected because of it.
C26_TotalSalesFinite ==
    \A t \in DOMAIN task :
        LET raw == RecordAt(advocate_files[t], task[t].idx)
        IN (/\ task[t].st \in {"w_valid", "w_invalid"}
            /\ raw.t = "obj"
            /\ ~_clean_advocate_raises(raw))
           => LET programs == get_or_empty(raw, "advocacy_programs").l
                  cleaned == get(_clean_advocate(raw), "advocacy_programs").l
              IN \A i \in DOMAIN programs :
                    LET source == get(programs[i], "total_sales_attributed")
                        value == get(cleaned[i], "total_sales_attributed")
                    IN /\ value.t = "num"
                       /\ (source = JNull \/ (source.t = "str" /\ ~IsDecimal(strip(source.s))))
                             => value.n = 0
                       /\ IsFloatLike(value)

\* the number of advocates in the results of the first n tasks
RECURSIVE ResultTotal(_)
ResultTotal(n) == IF n = 0 THEN 0 ELSE ListLen(task[n].result) + ResultTotal(n - 1)

\* every file of the worklist was dispatched, its task has completed and
\* its result has been aggregated into the buffer or a batch sent
AllAggregated ==
    /\ Len(task) = Len(advocate_files)
    /\ \A t \in DOMAIN task : Completed(t) /\ t \in consumed
    /\ HasDatastore => SentTotal(add_advocates_calls) + ListLen(batch) = ResultTotal(Len(task))

\* C27: the phases of a run are ordered: the worklist changes only before
\* the first dispatch and is whole when a file is dispatched; a batch is
\* sent at the threshold only while a result is being aggregated, and
\* otherwise only in the final flush; the final flush comes only when every
\* dispatched task has completed and its result has been aggregated; and
\* run() returns the stats only out of the final flush, or, with an empty
\* worklist, with nothing dispatched or sent.
C27_PhasesOrdered ==
    [][/\ advocate_files' # advocate_files => task' = <<>> /\ pc' = "scan"
       /\ Len(task') > Len(task) =>
             /\ pc = "submit"
             /\ dir.is_dir /\ scan_pos = Len(dir.entries)
             /\ advocate_files' = advocate_files
       /\ Len(add_advocates_calls') > Len(add_advocates_calls) =>
             \/ /\ pc = "flush_check"
                /\ cur \in consumed
                /\ cur_pos <= ListLen(task[cur].result)
                /\ ListLen(batch) = BATCH_SIZE
             \/ pc = "final_flush"
       /\ (pc = "final_flush" \/ pc' = "final_flush") => AllAggregated
       /\ (Len(returned') > Len(returned) /\ returned'[Len(returned')].ok) =>
             \/ pc = "final_flush" /\ batch' = <<>>
             \/ /\ pc = "scan"
                /\ advocate_files = <<>> /\ task = <<>> /\ add_advocates_calls = <<>>
      ]_vars

\* a run has sent a batch at the threshold and another in the final flush,
\* and has returned
C27_Witness ==
    /\ pc = "done"
    /\ Len(add_advocates_calls) >= 2
    /\ ListLen(add_advocates_calls[1]) = BATCH_SIZE
    /\ ListLen(add_advocates_calls[Len(add_advocates_calls)]) < BATCH_SIZE
    /\ Len(task) >= 2

\* a step of the thread executing run(), once run() is called
RunStep ==
    \/ ScanEntry
    \/ ScanDone
    \/ Submit
    \/ Collect
    \/ CollectDone
    \/ Aggregate
    \/ FlushCheck
    \/ Unwind
    \/ FinalFlush

\* a step of a thread of the pool
PoolStep == \E t \in DOMAIN task : WorkerStep(t)

\* the thread executing run() and the threads of the pool keep being
\* scheduled; every file read and every sink call returns (each is a step)
FairSpec == Spec /\ WF_vars(RunStep) /\ WF_vars(PoolStep)

\* C28: every run terminates: under fair scheduling run() eventually
\* returns the stats, for every directory and every max_workers >= 1.
C28_RunReturnsStats == (pc = "scan") ~> (pc = "done")

(***************************************************************************)
(* The API server answering requests over a collection the ingester has    *)
(* filled.  No ingester lives in the server process.                       *)
(***************************************************************************)
ingester_vars ==
    <<dir, write_to_datastore, max_workers, pc, run_no, returned, scan_pos,
      advocate_files, stats, task, consumed, cur, cur_pos, batch,
      add_advocates_calls, insert_many_outcomes, advocates, invalid_json_dir,
      failed_validation_dir, exc>>

ApiInit ==
    /\ dir = [is_dir |-> FALSE, entries |-> <<>>, parent_writable |-> TRUE]
    /\ write_to_datastore = TRUE
    /\ max_workers = MaxWorkers
    /\ pc = "idle"
    /\ run_no = 0
    /\ returned = <<>>
    /\ scan_pos = 0
    /\ advocate_files = <<>>
    /\ stats = IngestStats
    /\ task = <<>>
    /\ consumed = {}
    /\ cur = 0
    /\ cur_pos = 0
    /\ batch = <<>>
    /\ add_advocates_calls = <<>>
    /\ insert_many_outcomes = <<>>
    /\ advocates = <<>>
    /\ invalid_json_dir = {}
    /\ failed_validation_dir = <<>>
    /\ exc = "none"
    /\ api \in {NoRequests(collection) : collection \in SUBSET StoredDocuments}

\* the server has answered a request
Answered(request, outcome) ==
    api' = [store |-> api.store,
            request |-> request,
            response |-> outcome.response,
            calls |-> outcome.calls]

\* GET /users/{user_id}
GetUser ==
    /\ \E credentials \in Credentials, user_id \in UserIds :
          \E outcome \in IF correct_login(credentials)
                         THEN get_user(api.store, user_id)
                         ELSE {Unauthorized(credentials)} :
              Answered([endpoint |-> "/users/{user_id}",
                        credentials |-> credentials,
                        user_id |-> user_id],
                       outcome)
    /\ UNCHANGED ingester_vars

\* GET /metrics/top-advocates
TopAdvocates ==
    /\ \E credentials \in Credentials, limit \in Limits, metric \in Metrics :
          \E outcome \in IF correct_login(credentials)
                         THEN top_advocates(api.store,
                                            OrDefault(limit, DefaultLimit),
                                            OrDefault(metric, DefaultMetric))
                         ELSE {Unauthorized(credentials)} :
              Answered([endpoint |-> "/metrics/top-advocates",
                        credentials |-> credentials,
                        limit |-> limit,
                        metric |-> metric],
                       outcome)
    /\ UNCHANGED ingester_vars

\* GET /metrics/brands/performance
BrandPerformance ==
    /\ \E credentials \in Credentials :
          \E outcome \in IF correct_login(credentials)
                         THEN brand_performance(api.store)
                         ELSE {Unauthorized(credentials)} :
              Answered([endpoint |-> "/metrics/brands/performance",
                        credentials |-> credentials],
                       outcome)
    /\ UNCHANGED ingester_vars

\* GET /metrics/outliers with a "metric": the route has no dependency on
\* verify_password, the handler runs whatever the credentials
Outliers ==
    /\ \E credentials \in Credentials, metric \in Metrics \ {JNull}, stddev \in Stddevs :
          \E outcome \in outliers(api.store, metric, OrDefault(stddev, DefaultStddev)) :
              Answered([endpoint |-> "/metrics/outliers",
                        credentials |-> credentials,
                        metric |-> metric,
                        stddev |-> stddev],
                       outcome)
    /\ UNCHANGED ingester_vars

\* GET /health
Health ==
    /\ \E credentials \in Credentials :
          \E outcome \in IF correct_login(credentials)
                         THEN health
                         ELSE {Unauthorized(credentials)} :
              Answered([endpoint |-> "/health", credentials |-> credentials], outcome)
    /\ UNCHANGED ingester_vars

\* GET /swagger
Swagger ==
    /\ \E credentials \in Credentials :
          \E outcome \in IF correct_login(credentials)
                         THEN swagger
                         ELSE {Unauthorized(credentials)} :
              Answered([endpoint |-> "/swagger", credentials |-> credentials], outcome)
    /\ UNCHANGED ingester_vars

ApiNext ==
    \/ GetUser
    \/ TopAdvocates
    \/ BrandPerformance
    \/ Outliers
    \/ Health
    \/ Swagger

ApiSpec == ApiInit /\ [][ApiNext]_vars

\* the last request was this endpoint's, with the right credentials
Authenticated(endpoint) ==
    /\ api.request.endpoint = endpoint
    /\ correct_login(api.request.credentials)

\* C29: GET /metrics/top-advocates by an authenticated caller with a metric
\* other than "conversions" and "engagement" answers 400 with detail
\* "Invalid metric" and makes no call on the datastore; with one of the two
\* metrics (or none: "conversions") it answers 200 with that metric and the
\* list the datastore returned, unchanged.
C29_TopAdvocates ==
    Authenticated("/metrics/top-advocates") =>
        LET metric == OrDefault(api.request.metric, DefaultMetric)
        IN IF metric \notin {JStr(<<"conversions">>), JStr(<<"engagement">>)}
           THEN /\ api.response = HTTPException(HTTP_400_BAD_REQUEST, "Invalid metric")
                /\ api.calls = <<>>
           ELSE /\ api.response.status_code = HTTP_200_OK
                /\ Len(api.calls) = 1
                /\ api.calls[1].op = "calculate_top_advocates"
                /\ api.response.body =
                       JObj([metric |-> metric, results |-> api.calls[1].result])

\* the documents of the collection that have the user id of the request
StoredFor(user_id) == {d \in api.store : get(d, "user_id") = user_id}

\* C30: GET /users/{user_id} by an authenticated caller answers 200 with the
\* stored record unchanged when the datastore has a record for that id, and
\* 400 with detail "User not found" when the datastore returns no record;
\* it never answers 200 with an empty body.
C30_GetUser ==
    Authenticated("/users/{user_id}") =>
        LET stored == StoredFor(api.request.user_id)
        IN /\ Len(api.calls) = 1
           /\ stored # {} =>
                 /\ api.response.status_code = HTTP_200_OK
                 /\ api.response.body \in stored
                 /\ api.response.body = api.calls[1].result
           /\ (stored = {} \/ ~Truthy(api.calls[1].result)) =>
                 api.response = HTTPException(HTTP_400_BAD_REQUEST, "User not found")
           /\ ~(api.response.status_code = HTTP_200_OK /\ ~Truthy(api.response.body))

\* the programs of the stored documents, and those of a brand
StoredPrograms ==
    Flatten([n \in DOMAIN Documents(api.store) |-> UnwindPrograms(Documents(api.store)[n])])

ProgramsOf(brand) == SelectSeq(StoredPrograms, LAMBDA p : get(p, "brand") = brand)

\* the completed tasks of the programs of a brand
TasksOf(brand) ==
    Flatten([n \in DOMAIN ProgramsOf(brand) |->
                get_or_empty(ProgramsOf(brand)[n], "tasks_completed").l])

\* C31: calculate_brand_performance returns one entry per brand, in which
\* total_tasks is the number of completed tasks of the brand's programs, the
\* engagement and reach totals are the sums over those tasks, and
\* total_sales is the sum of total_sales_attributed over the brand's
\* programs, each program counted once however many tasks it has (none
\* included).
C31_BrandPerformance ==
    (api.request.endpoint = "/metrics/brands/performance" /\ api.calls # <<>>) =>
        LET results == api.calls[1].result.l
            brands == {get(StoredPrograms[n], "brand") : n \in DOMAIN StoredPrograms}
            total(brand, k) ==
                Sum([n \in DOMAIN TasksOf(brand) |-> get(TasksOf(brand)[n], k)])
        IN /\ \A brand \in brands :
                 Cardinality({n \in DOMAIN results : get(results[n], "brand") = brand}) = 1
           /\ \A n \in DOMAIN results :
                 LET brand == get(results[n], "brand")
                 IN /\ brand \in brands
                    /\ get(results[n], "total_tasks") = JNum(Len(TasksOf(brand)))
                    /\ get(results[n], "engagement") =
                           JObj([likes |-> total(brand, "likes"),
                                 comments |-> total(brand, "comments"),
                                 shares |-> total(brand, "shares")])
                    /\ get(results[n], "total_reach") = total(brand, "reach")
                    /\ get(results[n], "total_sales") =
                           Sum([p \in DOMAIN ProgramsOf(brand) |->
                                   get(ProgramsOf(brand)[p], "total_sales_attributed")])

\* the records of its file that the task has cleaned and validated
JudgedRecords(t) ==
    IF task[t].st \in {"w_valid", "w_invalid"} THEN task[t].idx ELSE CountedRecords(t)

\* the cleaned record has the programs of the raw record and each program
\* its tasks, as many and in the same places
SameProgramsAndTasks(raw, cleaned) ==
    LET source == get_or_empty(raw, "advocacy_programs").l
        programs == get_or_empty(cleaned, "advocacy_programs").l
    IN /\ Len(programs) = Len(source)
       /\ \A i \in DOMAIN source :
             LET from == get_or_empty(source[i], "tasks_completed").l
                 tasks == get_or_empty(programs[i], "tasks_completed").l
             IN /\ Truthy(get(source[i], "program_id")) =>
                       get(programs[i], "program_id") = get(source[i], "program_id")
                /\ Len(tasks) = Len(from)
                /\ \A j \in DOMAIN from :
                       get(tasks[j], "task_id") = get(from[j], "task_id")

\* the records of each content that the cleaner takes, and those of them
\* whose programs and tasks it keeps in place
Cleanable ==
    [c \in DOMAIN Contents |->
        {e \in DOMAIN RecordsOf(c) :
            /\ RecordsOf(c)[e].t = "obj"
            /\ ~_clean_advocate_raises(RecordsOf(c)[e])}]

OrderKept ==
    [c \in DOMAIN Contents |->
        {e \in Cleanable[c] :
            SameProgramsAndTasks(RecordsOf(c)[e], _clean_advocate(RecordsOf(c)[e]))}]

\* C32: order is preserved inside a file: the list of Advocates of a task is
\* the valid records of its file among those it has gone through, in the
\* order of the source array, each once; and every cleaned record has the
\* programs of its source, and every program its tasks, in the source
\* order and number.
C32_OrderPreserved ==
    \A t \in DOMAIN task :
        LET p == advocate_files[t]
            l == task[t].result
        IN /\ ListLen(l) = CountUpTo(p, JudgedRecords(t), "valid")
           /\ \A k \in DOMAIN l :
                 /\ l[k].p = p
                 /\ l[k].lo >= 1 /\ l[k].hi <= JudgedRecords(t)
                 /\ CountUpTo(p, l[k].hi, "valid") - CountUpTo(p, l[k].lo - 1, "valid")
                        = l[k].hi - l[k].lo + 1
                 /\ k > 1 => l[k - 1].hi < l[k].lo
           /\ task[t].st \in {"w_valid", "w_invalid"} =>
                 (ElementAt(p, task[t].idx) \in Cleanable[dir.entries[p]]
                    => ElementAt(p, task[t].idx) \in OrderKept[dir.entries[p]])

\* a task has returned the first and the third record of an array whose
\* second record is invalid, each with two programs and three tasks
C32_Witness ==
    \E t \in DOMAIN task :
        /\ task[t].st = "finished"
        /\ dir.entries[advocate_files[t]] = "ordered"
        /\ ListLen(task[t].result) = 2
        /\ ListAt(task[t].result, 1)[2] < ListAt(task[t].result, 2)[2]
        /\ OutcomeAt(advocate_files[t], 2) = "invalid"
        /\ Cardinality(TaskPositions(RecordAt(advocate_files[t], 1))) = 3

\* C33: each path of the worklist is submitted to the pool exactly once and
\* processed by exactly one task (task t is the one submitted for path t of
\* the worklist, and no path is twice in the worklist); the coordinator
\* takes the result of a task only once it has completed, and when the run
\* is over it has taken the result of every task; and at no moment are more
\* than max_workers tasks executing _process_file.
C33_OneTaskPerPath ==
    /\ Len(task) <= Len(advocate_files)
    /\ \A i, j \in DOMAIN advocate_files :
          i # j => advocate_files[i] # advocate_files[j]
    /\ Cardinality({t \in DOMAIN task : Running(t)}) <= max_workers
    /\ \A t \in consumed : t \in DOMAIN task /\ Completed(t)
    /\ (RunOver /\ advocate_files # <<>>) =>
          /\ Len(task) = Len(advocate_files)
          /\ consumed = DOMAIN task

RECURSIVE ListTake(_, _)
\* the first n advocates of a list
ListTake(l, n) ==
    IF n <= 0 \/ l = <<>> THEN <<>>
    ELSE LET len == l[1].hi - l[1].lo + 1
         IN IF len <= n
            THEN <<l[1]>> \o ListTake(Tail(l), n - len)
            ELSE <<[l[1] EXCEPT !.hi = l[1].lo + n - 1]>>

\* the tasks before the first one that failed, in order of submission
BeforeFailure ==
    {t \in DOMAIN task : \A u \in 1..t : task[u].st = "finished"}

\* what the run delivers when the tasks complete in the order they were
\* submitted in: the results before the first failed task, all of them when
\* no task failed and else those that filled whole batches; with no sink,
\* run() holds nothing, the first advocate ending it
DeliveredInOrder ==
    LET results == Flatten([t \in 1..Cardinality(BeforeFailure) |-> task[t].result])
    IN IF ~write_to_datastore THEN <<>>
       ELSE IF BeforeFailure = DOMAIN task THEN results
       ELSE ListTake(results, (ListLen(results) \div BATCH_SIZE) * BATCH_SIZE)

\* what the run at hand delivered to the sink, or holds with no sink
Delivered ==
    IF write_to_datastore THEN Flatten(add_advocates_calls) ELSE advocates

\* C34: the records delivered to the sink in a run (or held in
\* self.advocates with no sink) are the same multiset for every completion
\* order of the worker tasks: when the run is over, every advocate has been
\* delivered as many times as when the tasks complete in the order of their
\* submission.
C34_SameMultisetAnyOrder ==
    (RunOver /\ Len(task) = Len(advocate_files)) =>
        \A t \in DOMAIN task :
            \A i \in 1..NumRecords(TaskFile(t)) :
                ListCount(Delivered, advocate_files[t], i)
                    = ListCount(DeliveredInOrder, advocate_files[t], i)

\* C35: when run() returns normally, files_seen = files_parsed +
\* files_skipped: every *.json entry of the directory is counted in
\* files_seen, and every task has incremented exactly one of files_parsed
\* and files_skipped, once.
C35_SeenIsParsedPlusSkipped ==
    (pc = "done") =>
        /\ stats.files_seen = Cardinality(YieldedEntries \cup JunkEntries)
        /\ \A t \in DOMAIN task :
              task[t].incs.files_parsed + task[t].incs.files_skipped = 1
        /\ stats.files_seen = stats.files_parsed + stats.files_skipped

RECURSIVE CandidatesUpTo(_)
\* the candidate records of the parsed files among the first n entries: one
\* for a file holding a single value, one for each element of an array
CandidatesUpTo(n) ==
    IF n = 0 THEN 0
    ELSE CandidatesUpTo(n - 1)
         + (IF n \in YieldedEntries /\ _load_json(FileAt(n)) # JNull
            THEN NumRecords(FileAt(n)) ELSE 0)

CandidateRecords == CandidatesUpTo(Len(dir.entries))

\* C36: when run() returns normally, records_valid + records_invalid is the
\* number of candidate records of the parsed files: every task has counted
\* each record of a parsed file in exactly one of the two counters and no
\* record of a skipped file in either.
C36_EveryCandidateCounted ==
    (pc = "done") =>
        /\ \A t \in DOMAIN task :
              task[t].incs.records_valid + task[t].incs.records_invalid
                  = IF _load_json(TaskFile(t)) = JNull THEN 0
                    ELSE NumRecords(TaskFile(t))
        /\ stats.records_valid + stats.records_invalid = CandidateRecords

\* the calls of add_advocates in which insert_many raised
FailedCalls ==
    {k \in DOMAIN insert_many_outcomes : insert_many_outcomes[k] # "inserted"}

\* C37: a failure of the persistence backend while inserting a batch never
\* propagates to run(): no exception of add_advocates ends the run; the
\* advocates of a failed batch are no longer in the buffer and in no other
\* batch of the run; and when run() returns, every validated advocate has
\* been given to add_advocates in exactly one batch, whatever failed before.
C37_SinkFailureSwallowed ==
    /\ exc # "add_advocates"
    /\ Len(insert_many_outcomes) = Len(add_advocates_calls)
    /\ \A k \in FailedCalls :
          \A r \in DOMAIN add_advocates_calls[k] :
              \A i \in add_advocates_calls[k][r].lo..add_advocates_calls[k][r].hi :
                  /\ SentCount(add_advocates_calls[k][r].p, i) = 1
                  /\ ListCount(batch, add_advocates_calls[k][r].p, i) = 0
    /\ (pc = "done" /\ write_to_datastore) =>
          /\ \A p \in YieldedEntries : \A i \in ValidRecords(p) : SentCount(p, i) = 1
          /\ returned[Len(returned)].ok
          /\ batch = <<>>

\* run() has returned the stats after insert_many raised on a first batch
\* and a later batch was sent
C37_Witness ==
    /\ pc = "done"
    /\ Len(add_advocates_calls) >= 2
    /\ 1 \in FailedCalls
    /\ returned[Len(returned)].ok
    /\ SentTotal(add_advocates_calls) > BATCH_SIZE

\* C38: every endpoint (/users/{user_id}, /metrics/top-advocates,
\* /metrics/brands/performance, /metrics/outliers, /health, /swagger)
\* answers 401 and makes no call on the datastore when the request has no
\* credentials or wrong Basic credentials.
C38_AuthRequired ==
    (api.request.endpoint # "none" /\ ~correct_login(api.request.credentials)) =>
        /\ api.response.status_code = HTTP_401_UNAUTHORIZED
        /\ api.calls = <<>>

====
